---- MODULE Spec2Model ----
(***************************************************************************)
(* One invocation of the debug-session command (runDebug) against a        *)
(* cluster: the main flow of DebugConfig.Execute, the interrupt listener   *)
(* goroutine started by setupSignalHandler, and the environment (the       *)
(* cluster's own phase transitions, other actors removing sessions, the    *)
(* operator sending interrupts and answering prompts).                     *)
(***************************************************************************)
EXTENDS Integers, Sequences, FiniteSets, TLC

VARIABLES
    config,        \* DebugConfig built by NewDebugConfigFromFlags
    pc,            \* position of the main flow
    debugPodName,  \* name of the session this invocation creates ("" before)
    existingPod,   \* prior session chosen for reuse ("" when none)
    attempts,      \* loop counter i of waitForPod
    deferred,      \* the deferred cleanup of executeStandalone is registered
    result,        \* error returned by Execute: "none" while running, "nil", or an ErrorType
    cluster,       \* session objects present in the cluster
    reclaimed,     \* names of sessions removed by other actors
    notified,      \* signal.Notify is in force (listener installed)
    handlerName,   \* name captured by the listener goroutine
    sigChan,       \* signals buffered in sigChan (capacity 1)
    hpc,           \* position of the listener goroutine
    signals,       \* interrupts sent to the process so far
    ops,           \* operations issued so far, in order
    attachCode,    \* exit code of the attach that ended (-1: none ended)
    proc,          \* "running", "exited" (os.Exit or return of main), "killed" (by a signal)
    exitCode,      \* exit status of the process (-1 while running or when killed)
    \* one invocation of the clean command (runClean)
    cleanAllNamespaces, \* flag --all-namespaces of clean
    cleanForce,    \* flag --force of clean
    cleanOlderThan, \* flag --older-than of clean, as typed
    store,         \* pods of the cluster, in the backing store's native order
    cpc,           \* position of runClean
    debugPods,     \* result of getDebugPods
    podsToDelete,  \* result of filterPodsForCleanup
    cleanIdx,      \* how many records of podsToDelete the delete loop has handled
    deletedCount,  \* deletedCount of runClean
    cleanOps,      \* prompts and deletes issued by runClean, in order
    printed,       \* messages runClean printed, in order
    cleanErr,      \* error returned by runClean: "none" while running, "nil", or the message
    \* one application of a function of the program to its inputs
    args,          \* the inputs
    ret            \* [done |-> FALSE] before the call, then done and the value returned

debugVars == <<config, pc, debugPodName, existingPod, attempts, deferred, result,
               cluster, reclaimed, notified, handlerName, sigChan, hpc, signals,
               ops, attachCode, proc, exitCode>>

cleanVars == <<cleanAllNamespaces, cleanForce, cleanOlderThan, store, cpc,
               debugPods, podsToDelete, cleanIdx, deletedCount, cleanOps, printed,
               cleanErr>>

fnVars == <<args, ret>>

vars == <<debugVars, cleanVars, fnVars>>

mainVars == <<pc, debugPodName, existingPod, attempts, deferred, result, attachCode>>
sigVars  == <<notified, handlerName, sigChan, hpc>>

----------------------------------------------------------------------------
(* Bounds of the model *)

\* largest remote exit code an attach may end with
MaxExitCode == 2
\* largest number of interrupts sent to one invocation
MaxSignals == 2
\* latest creation time of a pod, in hours; also the time at which clean runs
MaxTime == 2

(* Program constants *)

maxAttempts == 30

OperationStandalone == "OperationStandalone"
OperationCopyPod == "OperationCopyPod"
OperationAddContainer == "OperationAddContainer"

ErrorTypePodNotFound == "POD_NOT_FOUND"
ErrorTypePermission == "PERMISSION_DENIED"
ErrorTypeKubectl == "KUBECTL_ERROR"
ErrorTypeValidation == "VALIDATION_ERROR"
ErrorTypeTimeout == "TIMEOUT_ERROR"
ErrorTypeClusterAccess == "CLUSTER_ACCESS_ERROR"
\* an error returned as it came from exec.Cmd.Run, not a DetailedError
PlainError == "PLAIN_ERROR"

\* the one target pod name used, and the names of its prior debug sessions in
\* the backing store's native order
Target == "T"
PriorNames == <<"debug-T-old1", "debug-T-old2">>

DiscoveryType == "debug-pod"

----------------------------------------------------------------------------
(* Configuration *)

\* NewDebugConfigFromFlags with the copy option looked at before the target
NewDebugConfigFromFlagsCopyFirst(p, i, t, rm, f, cp) ==
    [PodName |-> p, Interactive |-> i, TTY |-> t, RemoveAfter |-> rm,
     Force |-> f, CopyPod |-> cp,
     Operation |-> IF cp THEN OperationCopyPod
                   ELSE IF p = "" THEN OperationStandalone
                   ELSE OperationAddContainer]

NewDebugConfigFromFlags(p, i, t, rm, f, cp) ==
    [PodName |-> p, Interactive |-> i, TTY |-> t, RemoveAfter |-> rm,
     Force |-> f, CopyPod |-> cp,
     Operation |-> IF p = "" THEN OperationStandalone
                   ELSE IF cp THEN OperationCopyPod
                   ELSE OperationAddContainer]

Configs ==
    { NewDebugConfigFromFlags(p, i, t, rm, f, cp) :
        p \in {"", Target}, i \in BOOLEAN, t \in BOOLEAN,
        rm \in BOOLEAN, f \in BOOLEAN, cp \in BOOLEAN }

\* "config.Interactive && config.TTY": an interactive attach is requested
WantsAttach == config.Interactive /\ config.TTY

generateUniqueName(c) ==
    IF c.PodName = "" THEN "debug-HHMMSS-0001"
    ELSE "debug-T-HHMMSS-0001"

----------------------------------------------------------------------------
(* The cluster as seen through kubectl *)

Session(n, ty, tg, ph) == [name |-> n, type |-> ty, target |-> tg, phase |-> ph]

PriorSession(k) == Session(PriorNames[k], DiscoveryType, Target, "Running")

\* a debug session of another pod, first in the store's native order
OtherName == "debug-U-old0"
OtherSession == Session(OtherName, DiscoveryType, "U", "Running")
StoreOrder == <<OtherName>> \o PriorNames

Exists(n) == \E s \in cluster : s.name = n

Without(n) == { s \in cluster : s.name # n }

\* "kubectl delete pod n": fails when the pod is not there (no
\* --ignore-not-found is passed) or when the call fails otherwise (reqOk false)
DeleteSucceeds(n, reqOk) == Exists(n) /\ reqOk

AfterDelete(n, reqOk) == IF DeleteSucceeds(n, reqOk) THEN Without(n) ELSE cluster

\* one entry of the operation log: what was requested, by whom ("main" or
\* "listener"), on which object, and whether the program took it as
\* successful (err == nil); for a delete also whether the target was in the
\* cluster when it was requested (kept TRUE for the other operations)
Op(o, b, n, k) == [op |-> o, by |-> b, name |-> n, ok |-> k, present |-> TRUE]

\* the log entry of "kubectl delete pod n" requested by b
DeleteOp(b, n, reqOk) ==
    [op |-> "delete", by |-> b, name |-> n, ok |-> DeleteSucceeds(n, reqOk),
     present |-> Exists(n)]

Logged(rec) == Append(ops, rec)

\* error strings as the set of known patterns they contain
WrapKubectlError(errStr) ==
    IF "not found" \in errStr THEN ErrorTypePodNotFound
    ELSE IF "forbidden" \in errStr THEN ErrorTypePermission
    ELSE IF "connection refused" \in errStr THEN ErrorTypeClusterAccess
    ELSE ErrorTypeKubectl

\* what an *exec.ExitError prints: "exit status N", none of the patterns
ExitStatusError == {}

\* what a command that could not be started prints: "executable file not found"
StartError == {"not found"}

\* stderr texts kubectl may add to an error message
StderrTexts == { {}, {"not found"}, {"forbidden"}, {"connection refused"} }

----------------------------------------------------------------------------
\* the variables of runClean while no clean command runs
CleanIdle ==
    /\ cleanAllNamespaces = FALSE
    /\ cleanForce = FALSE
    /\ cleanOlderThan = ""
    /\ store = <<>>
    /\ cpc = "idle"
    /\ debugPods = <<>>
    /\ podsToDelete = <<>>
    /\ cleanIdx = 0
    /\ deletedCount = 0
    /\ cleanOps = <<>>
    /\ printed = <<>>
    /\ cleanErr = "none"

\* the variables of a function application while none is made
FnIdle ==
    /\ args = <<>>
    /\ ret = [done |-> FALSE]

\* the variables of runDebug while no debug command runs
DebugIdle ==
    /\ config = NewDebugConfigFromFlags("", FALSE, FALSE, FALSE, FALSE, FALSE)
    /\ pc = "idle"
    /\ debugPodName = ""
    /\ existingPod = ""
    /\ attempts = 0
    /\ deferred = FALSE
    /\ result = "none"
    /\ cluster = {}
    /\ reclaimed = {}
    /\ notified = FALSE
    /\ handlerName = ""
    /\ sigChan = 0
    /\ hpc = "none"
    /\ signals = 0
    /\ ops = <<>>
    /\ attachCode = -1
    /\ proc = "idle"
    /\ exitCode = -1

\* sessions that may be in the cluster when the invocation starts: prior
\* sessions of the target and, for an invocation with a target (a Standalone
\* invocation never queries the locator), a session of another pod
InitialSessions(c) ==
    { PriorSession(k) : k \in 1..Len(PriorNames) }
        \cup (IF c.PodName = "" THEN {} ELSE {OtherSession})

Init ==
    /\ config \in Configs
    /\ pc = "Execute"
    /\ debugPodName = ""
    /\ existingPod = ""
    /\ attempts = 0
    /\ deferred = FALSE
    /\ result = "none"
    /\ cluster \in SUBSET InitialSessions(config)
    /\ reclaimed = {}
    /\ notified = FALSE
    /\ handlerName = ""
    /\ sigChan = 0
    /\ hpc = "none"
    /\ signals = 0
    /\ ops = <<>>
    /\ attachCode = -1
    /\ proc = "running"
    /\ exitCode = -1
    /\ CleanIdle
    /\ FnIdle

Running == proc = "running"

----------------------------------------------------------------------------
(* Main flow: Execute and executeStandalone *)

Execute ==
    /\ Running /\ pc = "Execute"
    /\ pc' = IF config.Operation = OperationStandalone THEN "sa_create" ELSE "verify"
    /\ UNCHANGED <<cleanVars, fnVars, config, debugPodName, existingPod, attempts, deferred, result,
                   cluster, reclaimed, sigVars, signals, ops, attachCode, proc, exitCode>>

\* createDebugPod: build the pod and "kubectl apply" it
createDebugPod ==
    /\ Running /\ pc = "sa_create"
    /\ \E applied \in BOOLEAN, stderr \in StderrTexts :
        LET name == generateUniqueName(config) IN
        IF applied
        THEN /\ stderr = {}
             /\ cluster' = cluster \cup {Session(name, DiscoveryType, config.PodName, "Pending")}
             /\ debugPodName' = name
             /\ ops' = Logged(Op("create", "main", name, TRUE))
             /\ pc' = IF config.RemoveAfter THEN "sa_arm" ELSE "sa_wait"
             /\ UNCHANGED result
        ELSE /\ ops' = Logged(Op("create", "main", name, FALSE))
             /\ result' = WrapKubectlError(stderr)
             /\ pc' = "return"
             /\ UNCHANGED <<cluster, debugPodName>>
    /\ UNCHANGED <<cleanVars, fnVars, config, existingPod, attempts, deferred, reclaimed, sigVars,
                   signals, attachCode, proc, exitCode>>

\* setupSignalHandler as called by executeStandalone (operations.go:88-90)
StandaloneSetupSignalHandler ==
    /\ Running /\ pc = "sa_arm"
    /\ notified' = TRUE
    /\ handlerName' = debugPodName
    /\ hpc' = "waiting"
    /\ ops' = Logged(Op("arm", "main", debugPodName, TRUE))
    /\ pc' = "sa_wait"
    /\ UNCHANGED <<cleanVars, fnVars, config, debugPodName, existingPod, attempts, deferred, result,
                   cluster, reclaimed, sigChan, signals, attachCode, proc, exitCode>>

\* executeStandalone going on to the attach without the readiness wait
StandaloneSkipWaitAlways ==
    /\ Running /\ pc = "sa_wait"
    /\ pc' = "sa_defer"
    /\ UNCHANGED <<cleanVars, fnVars, config, debugPodName, existingPod, attempts, deferred, result,
                   cluster, reclaimed, sigVars, signals, ops, attachCode, proc, exitCode>>

\* operations.go:93: the wait is entered only when an attach will follow
StandaloneSkipWait ==
    /\ Running /\ pc = "sa_wait" /\ ~WantsAttach
    /\ pc' = "sa_defer"
    /\ UNCHANGED <<cleanVars, fnVars, config, debugPodName, existingPod, attempts, deferred, result,
                   cluster, reclaimed, sigVars, signals, ops, attachCode, proc, exitCode>>

\* waitForPod with the loop condition i <= maxAttempts
waitForPodPollOnceMore ==
    /\ Running /\ pc = "sa_wait" /\ WantsAttach
    /\ attempts <= maxAttempts
    /\ \E queryOk \in BOOLEAN :
        LET isRunning == queryOk /\ \E s \in cluster :
                             s.name = debugPodName /\ s.phase = "Running" IN
        /\ ops' = Logged(Op("poll", "main", debugPodName, isRunning))
        /\ IF isRunning
           THEN pc' = "sa_defer" /\ UNCHANGED attempts
           ELSE attempts' = attempts + 1 /\ UNCHANGED pc
    /\ UNCHANGED <<cleanVars, fnVars, config, debugPodName, existingPod, deferred, result, cluster,
                   reclaimed, sigVars, signals, attachCode, proc, exitCode>>

\* one iteration of waitForPod's loop: a phase query, then return or sleep
waitForPodPoll ==
    /\ Running /\ pc = "sa_wait" /\ WantsAttach
    /\ attempts < maxAttempts
    /\ \E queryOk \in BOOLEAN :
        LET isRunning == queryOk /\ \E s \in cluster :
                             s.name = debugPodName /\ s.phase = "Running" IN
        /\ ops' = Logged(Op("poll", "main", debugPodName, isRunning))
        /\ IF isRunning
           THEN pc' = "sa_defer" /\ UNCHANGED attempts
           ELSE attempts' = attempts + 1 /\ UNCHANGED pc
    /\ UNCHANGED <<cleanVars, fnVars, config, debugPodName, existingPod, deferred, result, cluster,
                   reclaimed, sigVars, signals, attachCode, proc, exitCode>>

\* the timeout as it would be with the cleanup deferred before the wait
waitForPodTimeoutCleanupArmed ==
    /\ Running /\ pc = "sa_wait" /\ WantsAttach
    /\ attempts >= maxAttempts
    /\ result' = ErrorTypeTimeout
    /\ deferred' = config.RemoveAfter
    /\ pc' = "sa_rundefer"
    /\ UNCHANGED <<cleanVars, fnVars, config, debugPodName, existingPod, attempts, cluster,
                   reclaimed, sigVars, signals, ops, attachCode, proc, exitCode>>

\* waitForPod's loop ends without Running: executeStandalone returns the timeout
waitForPodTimeout ==
    /\ Running /\ pc = "sa_wait" /\ WantsAttach
    /\ attempts >= maxAttempts
    /\ result' = ErrorTypeTimeout
    /\ pc' = "return"
    /\ UNCHANGED <<cleanVars, fnVars, config, debugPodName, existingPod, attempts, deferred, cluster,
                   reclaimed, sigVars, signals, ops, attachCode, proc, exitCode>>

\* operations.go:101-118: the defer statement registers the cleanup
StandaloneDefer ==
    /\ Running /\ pc = "sa_defer"
    /\ deferred' = config.RemoveAfter
    /\ pc' = "sa_attach"
    /\ UNCHANGED <<cleanVars, fnVars, config, debugPodName, existingPod, attempts, result, cluster,
                   reclaimed, sigVars, signals, ops, attachCode, proc, exitCode>>

\* operations.go:121-132: "kubectl attach -it" is started
StandaloneAttachStart ==
    /\ Running /\ pc = "sa_attach" /\ WantsAttach
    /\ ops' = Logged(Op("attach", "main", debugPodName, TRUE))
    /\ pc' = "sa_attaching"
    /\ UNCHANGED <<cleanVars, fnVars, config, debugPodName, existingPod, attempts, deferred, result,
                   cluster, reclaimed, sigVars, signals, attachCode, proc, exitCode>>

\* attachCmd.Run() returns, with the exit error wrapped and returned like any
\* other error, so that the deferred cleanup runs
StandaloneAttachEndReturning ==
    /\ Running /\ pc = "sa_attaching"
    /\ \E started \in BOOLEAN, c \in 0..MaxExitCode :
        IF ~started
        THEN /\ c = 0
             /\ ops' = Logged(Op("attachEnd", "main", debugPodName, FALSE))
             /\ result' = WrapKubectlError(StartError)
             /\ pc' = "sa_rundefer"
             /\ UNCHANGED <<attachCode, proc, exitCode>>
        ELSE IF c = 0
        THEN /\ ops' = Logged(Op("attachEnd", "main", debugPodName, TRUE))
             /\ attachCode' = 0
             /\ result' = "nil"
             /\ pc' = "sa_rundefer"
             /\ UNCHANGED <<proc, exitCode>>
        ELSE /\ ops' = Logged(Op("attachEnd", "main", debugPodName, FALSE))
             /\ attachCode' = c
             /\ result' = WrapKubectlError(ExitStatusError)
             /\ pc' = "sa_rundefer"
             /\ UNCHANGED <<proc, exitCode>>
    /\ UNCHANGED <<cleanVars, fnVars, config, debugPodName, existingPod, attempts, deferred, cluster,
                   reclaimed, sigVars, signals>>

\* operations.go:133-138: attachCmd.Run() returns
StandaloneAttachEnd ==
    /\ Running /\ pc = "sa_attaching"
    /\ \E started \in BOOLEAN, c \in 0..MaxExitCode :
        IF ~started
        THEN \* not an ExitError: wrapped and returned, the deferred cleanup runs
             /\ c = 0
             /\ ops' = Logged(Op("attachEnd", "main", debugPodName, FALSE))
             /\ result' = WrapKubectlError(StartError)
             /\ pc' = "sa_rundefer"
             /\ UNCHANGED <<attachCode, proc, exitCode>>
        ELSE IF c = 0
        THEN /\ ops' = Logged(Op("attachEnd", "main", debugPodName, TRUE))
             /\ attachCode' = 0
             /\ result' = "nil"
             /\ pc' = "sa_rundefer"
             /\ UNCHANGED <<proc, exitCode>>
        ELSE \* os.Exit(exitErr.ExitCode()): no deferred function runs
             /\ ops' = Logged(Op("attachEnd", "main", debugPodName, FALSE))
             /\ attachCode' = c
             /\ proc' = "exited"
             /\ exitCode' = c
             /\ UNCHANGED <<result, pc>>
    /\ UNCHANGED <<cleanVars, fnVars, config, debugPodName, existingPod, attempts, deferred, cluster,
                   reclaimed, sigVars, signals>>

\* operations.go:139-141: no attach, the operator is told how to exec in
StandaloneHint ==
    /\ Running /\ pc = "sa_attach" /\ ~WantsAttach
    /\ ops' = Logged(Op("hint", "main", debugPodName, TRUE))
    /\ result' = "nil"
    /\ pc' = "sa_rundefer"
    /\ UNCHANGED <<cleanVars, fnVars, config, debugPodName, existingPod, attempts, deferred, cluster,
                   reclaimed, sigVars, signals, attachCode, proc, exitCode>>

\* executeStandalone returns: the deferred cleanup, when registered, deletes the pod
StandaloneReturn ==
    /\ Running /\ pc = "sa_rundefer"
    /\ IF deferred
       THEN \E reqOk \in BOOLEAN :
              /\ ops' = Logged(DeleteOp("main", debugPodName, reqOk))
              /\ cluster' = AfterDelete(debugPodName, reqOk)
       ELSE UNCHANGED <<ops, cluster>>
    /\ pc' = "return"
    /\ UNCHANGED <<cleanVars, fnVars, config, debugPodName, existingPod, attempts, deferred, result,
                   reclaimed, sigVars, signals, attachCode, proc, exitCode>>

\* main: a non-nil error of Execute is printed and the process exits 1
MainExit ==
    /\ Running /\ pc = "return"
    /\ proc' = "exited"
    /\ exitCode' = IF result = "nil" THEN 0 ELSE 1
    /\ pc' = "done"
    /\ UNCHANGED <<cleanVars, fnVars, config, debugPodName, existingPod, attempts, deferred, result,
                   cluster, reclaimed, sigVars, signals, ops, attachCode>>

----------------------------------------------------------------------------
(* Main flow: executeCopyPod, executeAddContainer and their helpers *)

\* the first session the locator's query returns: discovery label, target
\* label, in the store's native order; "" when there is none
FirstExisting ==
    LET hits == { k \in 1..Len(StoreOrder) :
                    \E s \in cluster : /\ s.name = StoreOrder[k]
                                       /\ s.type = DiscoveryType
                                       /\ s.target = config.PodName }
    IN IF hits = {} THEN ""
       ELSE StoreOrder[CHOOSE k \in hits : \A j \in hits : k <= j]

\* verifyTargetPod followed by the collision check whatever Force is
verifyTargetPodAlwaysChecks ==
    /\ Running /\ pc = "verify"
    /\ \E found \in BOOLEAN :
        /\ ops' = Logged(Op("verify", "main", config.PodName, found))
        /\ IF ~found
           THEN result' = ErrorTypePodNotFound /\ pc' = "return"
           ELSE /\ UNCHANGED result
                /\ pc' = IF config.Operation = OperationAddContainer THEN "ac_container"
                         ELSE "cp_find"
    /\ UNCHANGED <<cleanVars, fnVars, config, debugPodName, existingPod, attempts, deferred, cluster,
                   reclaimed, sigVars, signals, attachCode, proc, exitCode>>

\* executeCopyPod and executeAddContainer going on after a failed lookup
verifyTargetPodUnheeded ==
    /\ Running /\ pc = "verify"
    /\ \E found \in BOOLEAN :
        /\ ops' = Logged(Op("verify", "main", config.PodName, found))
        /\ UNCHANGED result
        /\ pc' = IF config.Operation = OperationAddContainer THEN "ac_container"
                 ELSE IF config.Force THEN "cp_name"
                 ELSE "cp_find"
    /\ UNCHANGED <<cleanVars, fnVars, config, debugPodName, existingPod, attempts, deferred, cluster,
                   reclaimed, sigVars, signals, attachCode, proc, exitCode>>

\* verifyTargetPod, first statement of executeCopyPod and executeAddContainer
verifyTargetPod ==
    /\ Running /\ pc = "verify"
    /\ \E found \in BOOLEAN :
        /\ ops' = Logged(Op("verify", "main", config.PodName, found))
        /\ IF ~found
           THEN result' = ErrorTypePodNotFound /\ pc' = "return"
           ELSE /\ UNCHANGED result
                /\ pc' = IF config.Operation = OperationAddContainer THEN "ac_container"
                         ELSE IF config.Force THEN "cp_name"
                         ELSE "cp_find"
    /\ UNCHANGED <<cleanVars, fnVars, config, debugPodName, existingPod, attempts, deferred, cluster,
                   reclaimed, sigVars, signals, attachCode, proc, exitCode>>

\* findExistingDebugPod as called by executeCopyPod (operations.go:154-165)
findExistingDebugPod ==
    /\ Running /\ pc = "cp_find"
    /\ \E queryOk \in BOOLEAN, stderr \in StderrTexts :
        IF queryOk
        THEN /\ stderr = {}
             /\ ops' = Logged(Op("locate", "main", FirstExisting, TRUE))
             /\ existingPod' = FirstExisting
             /\ pc' = IF FirstExisting = "" THEN "cp_name" ELSE "cp_ask"
             /\ UNCHANGED result
        ELSE /\ ops' = Logged(Op("locate", "main", "", FALSE))
             /\ result' = WrapKubectlError(stderr)
             /\ pc' = "return"
             /\ UNCHANGED existingPod
    /\ UNCHANGED <<cleanVars, fnVars, config, debugPodName, attempts, deferred, cluster, reclaimed,
                   sigVars, signals, attachCode, proc, exitCode>>

\* lines the operator may type at the prompt; "eof" is a failed read
Answers == {"1", "2", "", "eof"}

\* askForNewPod creating a new pod unless the operator asks for the existing one
askForNewPodDefaultCreate ==
    /\ Running /\ pc = "cp_ask"
    /\ IF config.Force
       THEN pc' = "cp_name" /\ UNCHANGED ops
       ELSE \E response \in Answers :
              /\ ops' = Logged(Op("prompt", "main", existingPod, response = "2"))
              /\ pc' = IF response # "1" THEN "cp_name" ELSE "ue_start"
    /\ UNCHANGED <<cleanVars, fnVars, config, debugPodName, existingPod, attempts, deferred, result,
                   cluster, reclaimed, sigVars, signals, attachCode, proc, exitCode>>

\* askForNewPod: TRUE means "create a new pod"
askForNewPod ==
    /\ Running /\ pc = "cp_ask"
    /\ IF config.Force
       THEN pc' = "cp_name" /\ UNCHANGED ops
       ELSE \E response \in Answers :
              /\ ops' = Logged(Op("prompt", "main", existingPod, response = "2"))
              /\ pc' = IF response = "2" THEN "cp_name" ELSE "ue_start"
    /\ UNCHANGED <<cleanVars, fnVars, config, debugPodName, existingPod, attempts, deferred, result,
                   cluster, reclaimed, sigVars, signals, attachCode, proc, exitCode>>

\* useExistingPod, non-interactive branch (operations.go:240-243)
useExistingPodHint ==
    /\ Running /\ pc = "ue_start" /\ ~WantsAttach
    /\ ops' = Logged(Op("hint", "main", existingPod, TRUE))
    /\ result' = "nil"
    /\ pc' = "return"
    /\ UNCHANGED <<cleanVars, fnVars, config, debugPodName, existingPod, attempts, deferred, cluster,
                   reclaimed, sigVars, signals, attachCode, proc, exitCode>>

\* useExistingPod starts attachToPod ("kubectl exec -it ... -- sh")
useExistingPodAttachStart ==
    /\ Running /\ pc = "ue_start" /\ WantsAttach
    /\ ops' = Logged(Op("attach", "main", existingPod, TRUE))
    /\ pc' = "ue_attaching"
    /\ UNCHANGED <<cleanVars, fnVars, config, debugPodName, existingPod, attempts, deferred, result,
                   cluster, reclaimed, sigVars, signals, attachCode, proc, exitCode>>

\* attachToPod returns to useExistingPod (operations.go:231-239)
useExistingPodAttachEnd ==
    /\ Running /\ pc = "ue_attaching"
    /\ \E started \in BOOLEAN, c \in 0..MaxExitCode :
        IF started /\ c = 0
        THEN /\ ops' = Logged(Op("attachEnd", "main", existingPod, TRUE))
             /\ attachCode' = 0
             /\ IF config.RemoveAfter
                THEN pc' = "ue_delete" /\ UNCHANGED result
                ELSE pc' = "return" /\ result' = "nil"
        ELSE /\ ~started => c = 0
             /\ ops' = Logged(Op("attachEnd", "main", existingPod, FALSE))
             /\ attachCode' = IF started THEN c ELSE attachCode
             /\ result' = WrapKubectlError(IF started THEN ExitStatusError ELSE StartError)
             /\ pc' = "return"
    /\ UNCHANGED <<cleanVars, fnVars, config, debugPodName, existingPod, attempts, deferred, cluster,
                   reclaimed, sigVars, signals, proc, exitCode>>

\* deletePod as called by useExistingPod (operations.go:234-239)
useExistingPodDelete ==
    /\ Running /\ pc = "ue_delete"
    /\ \E reqOk \in BOOLEAN :
        /\ ops' = Logged(DeleteOp("main", existingPod, reqOk))
        /\ cluster' = AfterDelete(existingPod, reqOk)
        /\ result' = IF DeleteSucceeds(existingPod, reqOk) THEN "nil"
                     ELSE WrapKubectlError(ExitStatusError)
    /\ pc' = "return"
    /\ UNCHANGED <<cleanVars, fnVars, config, debugPodName, existingPod, attempts, deferred, reclaimed,
                   sigVars, signals, attachCode, proc, exitCode>>

\* createPodCopy, operations.go:247
createPodCopyName ==
    /\ Running /\ pc = "cp_name"
    /\ debugPodName' = generateUniqueName(config)
    /\ pc' = IF config.RemoveAfter THEN "cp_arm" ELSE "cp_tmp"
    /\ UNCHANGED <<cleanVars, fnVars, config, existingPod, attempts, deferred, result, cluster,
                   reclaimed, sigVars, signals, ops, attachCode, proc, exitCode>>

\* setupSignalHandler as called by createPodCopy (operations.go:250-252)
createPodCopySetupSignalHandler ==
    /\ Running /\ pc = "cp_arm"
    /\ notified' = TRUE
    /\ handlerName' = debugPodName
    /\ hpc' = "waiting"
    /\ ops' = Logged(Op("arm", "main", debugPodName, TRUE))
    /\ pc' = "cp_tmp"
    /\ UNCHANGED <<cleanVars, fnVars, config, debugPodName, existingPod, attempts, deferred, result,
                   cluster, reclaimed, sigChan, signals, attachCode, proc, exitCode>>

\* createPodCopy, operations.go:254-292: the custom resources file is written
createPodCopyCustomFile ==
    /\ Running /\ pc = "cp_tmp"
    /\ \E written \in BOOLEAN :
        IF written THEN pc' = "cp_run" /\ UNCHANGED result
        ELSE pc' = "return" /\ result' = ErrorTypeValidation
    /\ UNCHANGED <<cleanVars, fnVars, config, debugPodName, existingPod, attempts, deferred, cluster,
                   reclaimed, sigVars, signals, ops, attachCode, proc, exitCode>>

\* "kubectl debug" stays connected to the container it made: always with
\* -i -t, never without -i, and as kubectl chooses with -i alone
DebugMayAttach == IF WantsAttach THEN {TRUE}
                  ELSE IF config.Interactive THEN BOOLEAN
                  ELSE {FALSE}

\* logged as an interactive attach only when the program asked for one (-i -t)
AttachOp == IF WantsAttach THEN "attach" ELSE "stream"
AttachEndOp == IF WantsAttach THEN "attachEnd" ELSE "streamEnd"

\* createPodCopy, operations.go:294-330: "kubectl debug --copy-to" creates the copy
createPodCopyRun ==
    /\ Running /\ pc = "cp_run"
    /\ \E created \in BOOLEAN, att \in DebugMayAttach :
        IF ~created
        THEN /\ att = (TRUE \in DebugMayAttach)
             /\ ops' = Logged(Op("create", "main", debugPodName, FALSE))
             /\ result' = WrapKubectlError(ExitStatusError)
             /\ pc' = "return"
             /\ UNCHANGED cluster
        ELSE /\ cluster' = cluster \cup {Session(debugPodName, "", "", "Running")}
             /\ UNCHANGED result
             /\ IF att
                THEN /\ ops' = ops \o << Op("create", "main", debugPodName, TRUE),
                                         Op(AttachOp, "main", debugPodName, TRUE) >>
                     /\ pc' = "cp_attaching"
                ELSE /\ ops' = Logged(Op("create", "main", debugPodName, TRUE))
                     /\ pc' = "cp_after"
    /\ UNCHANGED <<cleanVars, fnVars, config, debugPodName, existingPod, attempts, deferred, reclaimed,
                   sigVars, signals, attachCode, proc, exitCode>>

\* cmd.Run() of "kubectl debug --copy-to" returns (operations.go:328-330)
createPodCopyAttachEnd ==
    /\ Running /\ pc = "cp_attaching"
    /\ \E c \in 0..MaxExitCode :
        /\ ops' = Logged(Op(AttachEndOp, "main", debugPodName, c = 0))
        /\ attachCode' = IF WantsAttach THEN c ELSE attachCode
        /\ IF c = 0
           THEN pc' = "cp_after" /\ UNCHANGED result
           ELSE pc' = "return" /\ result' = WrapKubectlError(ExitStatusError)
    /\ UNCHANGED <<cleanVars, fnVars, config, debugPodName, existingPod, attempts, deferred, cluster,
                   reclaimed, sigVars, signals, proc, exitCode>>

\* the end of createPodCopy as it would be without the RemoveAfter block
createPodCopyAfterNoRemove ==
    /\ Running /\ pc = "cp_after"
    /\ ops' = IF ~WantsAttach THEN Logged(Op("hint", "main", debugPodName, TRUE)) ELSE ops
    /\ pc' = "return" /\ result' = "nil"
    /\ UNCHANGED <<cleanVars, fnVars, config, debugPodName, existingPod, attempts, deferred, cluster,
                   reclaimed, sigVars, signals, attachCode, proc, exitCode>>

\* createPodCopy, operations.go:332-343: hint when not interactive, delete
\* only when RemoveAfter and interactive
createPodCopyAfter ==
    /\ Running /\ pc = "cp_after"
    /\ ops' = IF ~WantsAttach THEN Logged(Op("hint", "main", debugPodName, TRUE)) ELSE ops
    /\ IF config.RemoveAfter /\ WantsAttach
       THEN pc' = "cp_delete" /\ UNCHANGED result
       ELSE pc' = "return" /\ result' = "nil"
    /\ UNCHANGED <<cleanVars, fnVars, config, debugPodName, existingPod, attempts, deferred, cluster,
                   reclaimed, sigVars, signals, attachCode, proc, exitCode>>

\* deletePod as called by createPodCopy (operations.go:336-341)
createPodCopyDelete ==
    /\ Running /\ pc = "cp_delete"
    /\ \E reqOk \in BOOLEAN :
        /\ ops' = Logged(DeleteOp("main", debugPodName, reqOk))
        /\ cluster' = AfterDelete(debugPodName, reqOk)
        /\ result' = IF DeleteSucceeds(debugPodName, reqOk) THEN "nil"
                     ELSE WrapKubectlError(ExitStatusError)
    /\ pc' = "return"
    /\ UNCHANGED <<cleanVars, fnVars, config, debugPodName, existingPod, attempts, deferred, reclaimed,
                   sigVars, signals, attachCode, proc, exitCode>>

\* executeAddContainer, operations.go:178-182
getTargetContainerName ==
    /\ Running /\ pc = "ac_container"
    /\ \E queryOk \in BOOLEAN :
        IF queryOk THEN pc' = "ac_run" /\ UNCHANGED result
        ELSE pc' = "return" /\ result' = WrapKubectlError(ExitStatusError)
    /\ UNCHANGED <<cleanVars, fnVars, config, debugPodName, existingPod, attempts, deferred, cluster,
                   reclaimed, sigVars, signals, ops, attachCode, proc, exitCode>>

\* executeAddContainer, operations.go:184-214: "kubectl debug" injects the
\* ephemeral container and may stay attached to it
executeAddContainerRun ==
    /\ Running /\ pc = "ac_run"
    /\ \E injected \in BOOLEAN, att \in DebugMayAttach :
        IF ~injected
        THEN /\ att = (TRUE \in DebugMayAttach)
             /\ ops' = Logged(Op("inject", "main", config.PodName, FALSE))
             /\ result' = PlainError
             /\ pc' = "return"
        ELSE IF att
        THEN /\ ops' = ops \o << Op("inject", "main", config.PodName, TRUE),
                                 Op(AttachOp, "main", config.PodName, TRUE) >>
             /\ pc' = "ac_attaching"
             /\ UNCHANGED result
        ELSE /\ ops' = Logged(Op("inject", "main", config.PodName, TRUE))
             /\ result' = "nil"
             /\ pc' = "return"
    /\ UNCHANGED <<cleanVars, fnVars, config, debugPodName, existingPod, attempts, deferred, cluster,
                   reclaimed, sigVars, signals, attachCode, proc, exitCode>>

\* "return cmd.Run()" of executeAddContainer: the raw error or nil
executeAddContainerAttachEnd ==
    /\ Running /\ pc = "ac_attaching"
    /\ \E c \in 0..MaxExitCode :
        /\ ops' = Logged(Op(AttachEndOp, "main", config.PodName, c = 0))
        /\ attachCode' = IF WantsAttach THEN c ELSE attachCode
        /\ result' = IF c = 0 THEN "nil" ELSE PlainError
    /\ pc' = "return"
    /\ UNCHANGED <<cleanVars, fnVars, config, debugPodName, existingPod, attempts, deferred, cluster,
                   reclaimed, sigVars, signals, proc, exitCode>>

----------------------------------------------------------------------------
(* The interrupt listener goroutine of setupSignalHandler *)

\* "<-sigChan": the goroutine takes the buffered signal
HandlerReceive ==
    /\ Running /\ hpc = "waiting" /\ sigChan > 0
    /\ sigChan' = sigChan - 1
    /\ hpc' = "cleanup"
    /\ UNCHANGED <<cleanVars, fnVars, config, mainVars, cluster, reclaimed, notified, handlerName,
                   signals, ops, proc, exitCode>>

\* config.deletePod(debugPodName) in the goroutine; a failure is only logged
HandlerDelete ==
    /\ Running /\ hpc = "cleanup"
    /\ \E reqOk \in BOOLEAN :
        /\ ops' = Logged(DeleteOp("listener", handlerName, reqOk))
        /\ cluster' = AfterDelete(handlerName, reqOk)
    /\ hpc' = "exit"
    /\ UNCHANGED <<cleanVars, fnVars, config, mainVars, reclaimed, notified, handlerName, sigChan,
                   signals, proc, exitCode>>

\* os.Exit(1) in the goroutine
HandlerExit ==
    /\ Running /\ hpc = "exit"
    /\ proc' = "exited"
    /\ exitCode' = 1
    /\ hpc' = "done"
    /\ UNCHANGED <<cleanVars, fnVars, config, mainVars, cluster, reclaimed, notified, handlerName,
                   sigChan, signals, ops>>

----------------------------------------------------------------------------
(* Environment *)

\* SIGINT or SIGTERM reaches the process: buffered for the listener when
\* signal.Notify is in force (dropped when the buffer is full), fatal otherwise
Interrupt ==
    /\ Running /\ signals < MaxSignals
    /\ signals' = signals + 1
    /\ IF notified
       THEN /\ sigChan' = IF sigChan < 1 THEN sigChan + 1 ELSE sigChan
            /\ UNCHANGED proc
       ELSE /\ proc' = "killed"
            /\ UNCHANGED sigChan
    /\ UNCHANGED <<cleanVars, fnVars, config, mainVars, cluster, reclaimed, notified, handlerName,
                   hpc, ops, exitCode>>

\* another actor (a reclamation run, the cluster itself) removes a session this
\* invocation works on; earlier removals of other sessions are Init's choice
ExternalRemove ==
    /\ Running
    /\ \E s \in cluster :
        /\ s.name \in {debugPodName, existingPod}
        /\ cluster' = cluster \ {s}
        /\ reclaimed' = reclaimed \cup {s.name}
    /\ UNCHANGED <<cleanVars, fnVars, config, mainVars, sigVars, signals, ops, proc, exitCode>>

\* the cluster schedules and starts the created pod
BecomeRunning ==
    /\ Running
    /\ \E s \in cluster :
        /\ s.phase = "Pending"
        /\ cluster' = (cluster \ {s}) \cup {[s EXCEPT !.phase = "Running"]}
    /\ UNCHANGED <<cleanVars, fnVars, config, mainVars, reclaimed, sigVars, signals, ops, proc, exitCode>>

----------------------------------------------------------------------------
Next ==
    \/ Execute
    \/ createDebugPod
    \/ StandaloneSetupSignalHandler
    \/ StandaloneSkipWait
    \/ waitForPodPoll
    \/ waitForPodTimeout
    \/ StandaloneDefer
    \/ StandaloneAttachStart
    \/ StandaloneAttachEnd
    \/ StandaloneHint
    \/ StandaloneReturn
    \/ verifyTargetPod
    \/ findExistingDebugPod
    \/ askForNewPod
    \/ useExistingPodHint
    \/ useExistingPodAttachStart
    \/ useExistingPodAttachEnd
    \/ useExistingPodDelete
    \/ createPodCopyName
    \/ createPodCopySetupSignalHandler
    \/ createPodCopyCustomFile
    \/ createPodCopyRun
    \/ createPodCopyAttachEnd
    \/ createPodCopyAfter
    \/ createPodCopyDelete
    \/ getTargetContainerName
    \/ executeAddContainerRun
    \/ executeAddContainerAttachEnd
    \/ MainExit
    \/ HandlerReceive
    \/ HandlerDelete
    \/ HandlerExit
    \/ Interrupt
    \/ ExternalRemove
    \/ BecomeRunning

Spec == Init /\ [][Next]_vars

----------------------------------------------------------------------------
(* Vocabulary of the properties *)

Idx == DOMAIN ops

IsDelete(i) == ops[i].op = "delete"

\* deletes the program itself requested (main flow or listener)
ProgramDeletes(n) == { i \in Idx : IsDelete(i) /\ ops[i].name = n }

MainDeletes == { i \in Idx : IsDelete(i) /\ ops[i].by = "main" }

ListenerDeletes == { i \in Idx : IsDelete(i) /\ ops[i].by = "listener" }

\* the target of operation i was in the cluster before i was requested
WasThere(i) ==
    \/ ops[i].name = existingPod
    \/ \E j \in 1..(i - 1) :
          ops[j].op = "create" /\ ops[j].ok /\ ops[j].name = ops[i].name

\* Execute has returned to main
MainReturned == pc \in {"return", "done"}

\* the readiness wait ran out of attempts
WaitExhausted == attempts >= maxAttempts /\ pc # "sa_wait"

\* the create of this invocation's session was answered with success / failure
CreateSucceeded == \E i \in Idx : ops[i].op = "create" /\ ops[i].ok
CreateFailed == \E i \in Idx : ops[i].op = "create" /\ ~ops[i].ok

\* the session the controller is working on in one of the states "waiting for
\* readiness, attached, reusing an existing session, tearing down"; "" elsewhere
SessionInHand ==
    IF pc \in {"ue_start", "ue_attaching", "ue_delete"} THEN existingPod
    ELSE IF pc \in {"sa_wait", "sa_defer", "sa_attach", "sa_attaching", "sa_rundefer",
                    "cp_attaching", "cp_after", "cp_delete"} THEN debugPodName
    ELSE ""

----------------------------------------------------------------------------
(* C1: when the readiness wait exhausts its attempts the operation fails with
   a timeout (exit status 1 when the main flow ends the process), the main flow
   has issued no delete, with RemoveAfter set or not, and the session is still
   in the cluster unless the interrupt listener or another actor removed it. *)
C1_TimeoutKeepsSession ==
    WaitExhausted =>
        /\ result = ErrorTypeTimeout
        /\ MainDeletes = {}
        /\ ~deferred
        /\ pc = "done" => exitCode = 1
        /\ \/ Exists(debugPodName)
           \/ debugPodName \in reclaimed
           \/ \E i \in ListenerDeletes : ops[i].name = debugPodName /\ ops[i].ok

C1_Witness ==
    /\ WaitExhausted /\ config.RemoveAfter /\ pc = "done"
    /\ Exists(debugPodName) /\ signals = 0

(* C2: with RemoveAfter set, an interrupt that arrives while the controller
   is waiting for readiness, attached, reusing an existing session or tearing
   down finds the listener armed for that session and does not kill the
   process before the listener's delete. *)
C2_InterruptFindsListener ==
    [][ (signals' = signals + 1 /\ config.RemoveAfter /\ SessionInHand # "")
          => (notified /\ handlerName = SessionInHand /\ proc' = "running") ]_vars

(* C3: with RemoveAfter set, every interactive attach to a session (the one
   created, the copy, or a reused one) is preceded by the installation of the
   interrupt listener for that session. *)
C3_ListenerBeforeAttach ==
    \A i \in Idx :
        (ops[i].op = "attach" /\ config.RemoveAfter
            /\ ops[i].name \in {debugPodName, existingPod})
        => \E j \in 1..(i - 1) : ops[j].op = "arm" /\ ops[j].name = ops[i].name

(* C4: within one invocation at most one delete request is issued for a
   given session, whatever the interleaving of listener and main flow. *)
C4_AtMostOneDelete ==
    \A i, j \in Idx :
        (IsDelete(i) /\ IsDelete(j) /\ ops[i].name = ops[j].name) => i = j

(* C5: a delete whose target was in the cluster earlier (created by this
   invocation, or located as a prior session) and is gone when the delete is
   requested is taken as a success by the program, in every delete path. *)
C5_GoneIsSuccess ==
    \A i \in Idx : (IsDelete(i) /\ ~ops[i].present /\ WasThere(i)) => ops[i].ok

(* C6: in a non-interactive invocation that created a session the controller
   issues no readiness poll, no attach and no delete from the main flow, and
   has told the operator how to exec in when it returns. *)
C6_NonInteractiveLeavesSession ==
    (~WantsAttach /\ CreateSucceeded) =>
        /\ \A i \in Idx : ~(ops[i].op \in {"poll", "attach"})
        /\ MainDeletes = {}
        /\ (MainReturned /\ result = "nil") => \E i \in Idx : ops[i].op = "hint"

(* C7: when RemoveAfter is set and the interactive attach to a session ended
   normally, the main flow, once it has returned, has issued a delete for that
   session after the attach returned; and no delete of the main flow in an
   interactive invocation precedes the return of the attach. *)
C7_DeleteAfterAttach ==
    /\ (config.RemoveAfter /\ WantsAttach /\ attachCode = 0 /\ MainReturned
            /\ config.Operation # OperationAddContainer)
        => \E i, j \in Idx :
              /\ i < j
              /\ ops[i].op = "attachEnd" /\ ops[i].ok
              /\ IsDelete(j) /\ ops[j].by = "main" /\ ops[j].name = ops[i].name
    /\ WantsAttach =>
          \A j \in MainDeletes :
              \E i \in 1..(j - 1) : ops[i].op = "attachEnd" /\ ops[i].name = ops[j].name

C7_Witness ==
    /\ pc = "done" /\ existingPod # "" /\ attachCode = 0
    /\ \E j \in MainDeletes : ops[j].name = existingPod /\ ops[j].ok

(* C8: if the cluster create fails the error is surfaced, no readiness poll,
   attach or delete is issued, no session object is left and no teardown is
   armed. *)
C8_CreateFailureLeavesNothing ==
    CreateFailed =>
        /\ ~(result \in {"none", "nil"})
        /\ \A i \in Idx : ~(ops[i].op \in {"poll", "attach", "delete"})
        /\ ~Exists(generateUniqueName(config))
        /\ ~notified

(* C9: whenever an interactive attach to a session ended with exit code c,
   the invocation terminates with exit code c. *)
C9_ExitCodeInherited ==
    (proc = "exited" /\ attachCode >= 0 /\ config.Operation # OperationAddContainer)
        => exitCode = attachCode

(* C10: when a remove-after delete fails, the flow that issued it issues no
   further operation on the session (no retry), and a failed delete after a
   normally ended attach leaves the outcome of the invocation a success. *)
C10_TeardownBestEffort ==
    \A i \in Idx :
        (IsDelete(i) /\ ~ops[i].ok) =>
            /\ \A j \in Idx : (j > i /\ ops[j].name = ops[i].name) => ops[j].by # ops[i].by
            /\ (ops[i].by = "main" /\ attachCode = 0 /\ MainReturned) => result = "nil"

----------------------------------------------------------------------------
(* Positions of the three flows of Execute *)

StandaloneFlow == {"sa_create", "sa_arm", "sa_wait", "sa_defer", "sa_attach",
                   "sa_attaching", "sa_rundefer"}
CopyPodFlow == {"cp_find", "cp_ask", "cp_name", "cp_arm", "cp_tmp", "cp_run",
                "cp_attaching", "cp_after", "cp_delete",
                "ue_start", "ue_attaching", "ue_delete"}
AddContainerFlow == {"ac_container", "ac_run", "ac_attaching"}

\* the operations only one flow issues
StandaloneOps == {"poll"}
CopyPodOps == {"locate", "prompt"}
AddContainerOps == {"inject"}

(* C11: the mode is Standalone when there is no target (with the copy option
   set or not), PodCopy for a target with the copy option, EphemeralContainer
   for a target without it; Execute is in, and has issued the operations of,
   the flow of that mode only. *)
C11_ModeSelection ==
    /\ config.PodName = "" => config.Operation = OperationStandalone
    /\ (config.PodName # "" /\ config.CopyPod) => config.Operation = OperationCopyPod
    /\ (config.PodName # "" /\ ~config.CopyPod) => config.Operation = OperationAddContainer
    /\ pc \in StandaloneFlow => config.PodName = ""
    /\ pc \in CopyPodFlow => (config.PodName # "" /\ config.CopyPod)
    /\ pc \in AddContainerFlow => (config.PodName # "" /\ ~config.CopyPod)
    /\ \A i \in Idx :
        /\ ops[i].op \in StandaloneOps => config.PodName = ""
        /\ ops[i].op \in CopyPodOps => (config.PodName # "" /\ config.CopyPod)
        /\ ops[i].op \in AddContainerOps => (config.PodName # "" /\ ~config.CopyPod)
        /\ ops[i].op = "verify" => config.PodName # ""
        /\ ops[i].op = "create" => (config.PodName = "" \/ config.CopyPod)

C11_Witness ==
    /\ config.PodName = "" /\ config.CopyPod
    /\ pc = "sa_attaching"
    /\ \E i \in Idx : ops[i].op = "poll"

\* the target was verified to exist
VerifyOk == \E i \in Idx : ops[i].op = "verify" /\ ops[i].ok

\* positions of the collision check and of the reuse of an existing session
CheckAndReuse == {"cp_find", "cp_ask", "ue_start", "ue_attaching", "ue_delete"}

\* prior sessions of the target T that are in the cluster
PriorPresent == { k \in 1..Len(PriorNames) : Exists(PriorNames[k]) }

(* C12: with Force set no locator query and no prompt is ever issued, no
   existing session is chosen or reused, and a PodCopy invocation whose
   target was verified goes on to create the new session (unless writing the
   resources file failed), whatever prior sessions the target has. *)
C12_ForceSkipsCheck ==
    config.Force =>
        /\ \A i \in Idx : ~(ops[i].op \in {"locate", "prompt"})
        /\ existingPod = ""
        /\ ~(pc \in CheckAndReuse)
        /\ (/\ config.Operation = OperationCopyPod
            /\ VerifyOk /\ MainReturned
            /\ result # ErrorTypeValidation)
               => \E i \in Idx : ops[i].op = "create"

C12_Witness ==
    /\ config.Force /\ config.Operation = OperationCopyPod
    /\ PriorPresent = 1..Len(PriorNames)
    /\ \E i \in Idx : ops[i].op = "create" /\ ops[i].ok
    /\ MainReturned

\* locator queries that were answered, and prompts shown
Locates == { i \in Idx : ops[i].op = "locate" /\ ops[i].ok }
Prompts == { i \in Idx : ops[i].op = "prompt" }

\* positions of the reuse of an existing session
ReuseFlow == {"ue_start", "ue_attaching", "ue_delete"}

\* prior sessions of the target that were in the cluster when the invocation
\* started: still there, removed by another actor, or deleted by the program
KnownPrior ==
    { k \in 1..Len(PriorNames) :
        \/ Exists(PriorNames[k])
        \/ PriorNames[k] \in reclaimed
        \/ \E i \in Idx : IsDelete(i) /\ ops[i].ok /\ ops[i].name = PriorNames[k] }

\* the first of them in the store's order, "" when there is none
FirstKnownPrior ==
    IF KnownPrior = {} THEN ""
    ELSE PriorNames[CHOOSE k \in KnownPrior : \A j \in KnownPrior : k <= j]

(* C13: without Force a PodCopy invocation queries the locator for sessions
   of its target only; with no match it goes on to create and never prompts;
   with a match it prompts once, about the first match; the existing session
   is reused unless the answer is the explicit "create new", and when it is
   reused no new session is created and none is named. *)
C13_CollisionCheck ==
    (config.Operation = OperationCopyPod /\ ~config.Force) =>
        /\ Cardinality(Locates) <= 1 /\ Cardinality(Prompts) <= 1
        /\ \A i \in Locates : ops[i].name = FirstKnownPrior
        /\ \A i \in Locates : ops[i].name = "" =>
              /\ Prompts = {}
              /\ ~(pc \in ReuseFlow) /\ existingPod = ""
        /\ \A i \in Locates : (ops[i].name # "" /\ pc # "cp_ask") =>
              \E j \in Prompts : j = i + 1 /\ ops[j].name = ops[i].name
        /\ \A j \in Prompts :
              /\ \E i \in Locates : i < j
              /\ ops[j].ok => ~(pc \in ReuseFlow)
              /\ ~ops[j].ok =>
                    /\ \A l \in Idx : ops[l].op # "create"
                    /\ debugPodName = ""
                    /\ \A l \in Idx : (l > j /\ ops[l].by = "main") => ops[l].name = ops[j].name
        /\ (VerifyOk /\ pc \in {"cp_name", "cp_arm", "cp_tmp", "cp_run"}) =>
              \/ \E i \in Locates : ops[i].name = ""
              \/ \E j \in Prompts : ops[j].ok

C13_Witness ==
    /\ config.Operation = OperationCopyPod /\ ~config.Force
    /\ Exists(OtherName) /\ KnownPrior = 1..Len(PriorNames)
    /\ \E j \in Prompts : ~ops[j].ok /\ ops[j].name = PriorNames[1]
    /\ pc = "ue_attaching"

(* C14: an EphemeralContainer invocation without Force against a target that
   has prior sessions injects its container only after the operator was
   prompted and answered "create new". *)
C14_EphemeralPrompts ==
    (config.Operation = OperationAddContainer /\ ~config.Force /\ KnownPrior # {}) =>
        \A i \in Idx : ops[i].op = "inject" =>
            \E j \in Prompts : j < i /\ ops[j].ok

(* C15: every session this invocation created carries the discovery label
   and, when a target was given, the target label with the target's name, so
   that a locator query for that target returns it. *)
C15_CreatedSessionsDiscoverable ==
    \A i \in Idx : (ops[i].op = "create" /\ ops[i].ok) =>
        \A s \in cluster : s.name = ops[i].name =>
            /\ s.type = DiscoveryType
            /\ config.PodName # "" => s.target = config.PodName

----------------------------------------------------------------------------
(* Label derivation of createDebugPod (part_005:277-331): label maps are
   functions from a set of keys to values *)

LabelType == "debug-tool/type"
LabelTarget == "debug-tool/target"

LabelKeys == {"app", "tier", LabelType, LabelTarget}
LabelValues == {"a", "b"}

\* all label maps over the keys
LabelMaps == UNION { [K -> LabelValues] : K \in SUBSET LabelKeys }

\* labels[k] = v
Put(m, k, v) == [x \in (DOMAIN m) \cup {k} |-> IF x = k THEN v ELSE m[x]]

\* delete(labels, key) for every key of K
DeleteKeys(m, K) == [x \in (DOMAIN m) \ K |-> m[x]]

EmptyLabels == [x \in {} |-> ""]

\* the labels createDebugPod starts from
BasicLabels == Put(EmptyLabels, LabelType, DiscoveryType)

\* what "kubectl get pod -o jsonpath={.metadata.labels}" answered: an error,
\* output that is not a JSON map, or the labels (no output for no labels)
LabelResponses ==
    { [kind |-> "error"], [kind |-> "garbled"] }
        \cup { [kind |-> "labels", labels |-> m] : m \in LabelMaps }

\* what the three queries of getDeploymentSelectors ended in: an error, no
\* owning ReplicaSet or Deployment, or the matchLabels of the Deployment
SelectorResponses(podLabels) ==
    { [kind |-> "error"], [kind |-> "nil"] }
        \cup { [kind |-> "selectors", selectors |-> DeleteKeys(podLabels, K)] :
                 K \in SUBSET (DOMAIN podLabels) }

getTargetPodLabels(podName, resp) ==
    IF resp.kind = "error" THEN [err |-> TRUE, labels |-> EmptyLabels]
    ELSE IF resp.kind = "garbled" \/ resp.labels = EmptyLabels
    THEN [err |-> FALSE, labels |-> Put(BasicLabels, LabelTarget, podName)]
    ELSE [err |-> FALSE, labels |-> resp.labels]

getDeploymentSelectors(resp) ==
    IF resp.kind = "error" THEN [err |-> TRUE, isNil |-> TRUE, selectors |-> EmptyLabels]
    ELSE IF resp.kind = "nil" THEN [err |-> FALSE, isNil |-> TRUE, selectors |-> EmptyLabels]
    ELSE [err |-> FALSE, isNil |-> FALSE, selectors |-> resp.selectors]

\* the labels createDebugPod puts on the pod it builds
createDebugPodLabels(podName, labelResp, selResp) ==
    IF podName = "" THEN Put(BasicLabels, LabelType, DiscoveryType)
    ELSE
      LET targetLabels == getTargetPodLabels(podName, labelResp)
          l1 == IF ~targetLabels.err THEN targetLabels.labels ELSE BasicLabels
          l2 == Put(l1, LabelTarget, podName)
          deploymentSelectors == getDeploymentSelectors(selResp)
          l3 == IF ~deploymentSelectors.err /\ ~deploymentSelectors.isNil
                THEN DeleteKeys(l2, DOMAIN deploymentSelectors.selectors)
                ELSE l2
      IN Put(l3, LabelType, DiscoveryType)

\* the target's labels as the cluster holds them
LabelsOf(resp) == IF resp.kind = "labels" THEN resp.labels ELSE EmptyLabels

LabelInputs ==
    { [PodName |-> p, labels |-> lr, selectors |-> sr] :
        p \in {"", Target}, lr \in LabelResponses,
        sr \in UNION { SelectorResponses(LabelsOf(r)) : r \in LabelResponses } }

InitLabels ==
    /\ DebugIdle
    /\ CleanIdle
    /\ args \in { a \in LabelInputs : a.selectors \in SelectorResponses(LabelsOf(a.labels)) }
    /\ ret = [done |-> FALSE]

\* createDebugPod computes the labels of the pod
DeriveLabels ==
    /\ ~ret.done
    /\ ret' = [done |-> TRUE,
               value |-> createDebugPodLabels(args.PodName, args.labels, args.selectors)]
    /\ UNCHANGED <<debugVars, cleanVars, args>>

NextLabels == DeriveLabels

SpecLabels == InitLabels /\ [][NextLabels]_vars

(* C16: for a session built from a target whose labels and owning
   deployment's selector were read, the labels are the target's labels
   without the keys of the selector, plus the discovery label and the target
   label; both are there whatever the selector contains. *)
C16_LabelDerivation ==
    (/\ ret.done /\ args.PodName # ""
     /\ args.labels.kind = "labels"
     /\ args.selectors.kind \in {"nil", "selectors"}) =>
        LET sel == IF args.selectors.kind = "nil" THEN EmptyLabels
                   ELSE args.selectors.selectors
            stripped == DeleteKeys(args.labels.labels, DOMAIN sel)
        IN /\ ret.value = Put(Put(stripped, LabelType, DiscoveryType),
                              LabelTarget, args.PodName)
           /\ LabelType \in DOMAIN ret.value
           /\ LabelTarget \in DOMAIN ret.value

----------------------------------------------------------------------------
(* The clean command: runClean (part_004) on the pods of the cluster *)

\* the namespace flag of the root command at its default, and the
\* --all-namespaces flag of the list command, which clean never sets
namespace == "default"
listAllNamespaces == FALSE

\* the time at which clean runs
Now == MaxTime
Times == 0..MaxTime

\* a pod of the cluster: name, namespace, whether it carries the label
\* debug-tool/type=debug-pod, creation time
Pod(n, ns, dbg, c) == [name |-> n, namespace |-> ns, debug |-> dbg, created |-> c]

\* the pods the cluster may hold, in the backing store's native order
StoreNames == <<"debug-a", "debug-b", "debug-c", "debug-x", "web">>

\* the pods of the namespace in use that carry the discovery label
LocalDebugNames == {"debug-a", "debug-b", "debug-c"}

NamespaceOf(n) == IF n = "debug-x" THEN "other" ELSE namespace
IsDebugName(n) == n # "web"

\* the stores clean may meet: any of the pods, the debug pods of the
\* namespace in use with any creation time
Stores ==
    { { Pod(n, NamespaceOf(n), IsDebugName(n), IF n \in LocalDebugNames THEN f[n] ELSE 0) :
          n \in { m \in P : m \notin LocalDebugNames \/ f[m] >= 0 } } :
        f \in [LocalDebugNames -> Times \cup {-1}],
        P \in { Q \cup LocalDebugNames : Q \in SUBSET {"debug-x", "web"} } }

\* a sequence of the pods of S in the store's native order
InStoreOrder(S) ==
    LET P == { k \in 1..Len(StoreNames) : \E p \in S : p.name = StoreNames[k] }
        Nth(i) == CHOOSE k \in P : Cardinality({ j \in P : j < k }) = i - 1
    IN [ i \in 1..Cardinality(P) |->
           CHOOSE p \in S : p.name = StoreNames[Nth(i)] ]

\* DebugPodInfo of a pod (list.go:97-104)
DebugPodInfo(p) ==
    [Name |-> p.name, Namespace |-> p.namespace, CreationTimestamp |-> p.created]

\* the items "kubectl get pods -l debug-tool/type=debug-pod" returns
getDebugPodsItems ==
    LET hits == { p \in store : /\ p.debug
                                /\ listAllNamespaces \/ p.namespace = namespace }
        seq == InStoreOrder(hits)
    IN [ i \in DOMAIN seq |-> DebugPodInfo(seq[i]) ]

\* values of --older-than as typed
DurationTexts == {"", "0h", "1h", "2h", "-1h", "1", "abc"}

\* time.ParseDuration: a signed number with a unit, in hours here
ParseDuration(s) ==
    IF s = "0h" THEN [err |-> FALSE, d |-> 0]
    ELSE IF s = "1h" THEN [err |-> FALSE, d |-> 1]
    ELSE IF s = "2h" THEN [err |-> FALSE, d |-> 2]
    ELSE IF s = "-1h" THEN [err |-> FALSE, d |-> -1]
    ELSE [err |-> TRUE, d |-> 0]

\* filterPodsForCleanup with "before or at the cutoff"
filterPodsForCleanupInclusive(pods) ==
    IF cleanOlderThan = "" THEN [err |-> FALSE, pods |-> pods]
    ELSE LET parsed == ParseDuration(cleanOlderThan)
             cutoff == Now - parsed.d
             Old(p) == p.CreationTimestamp <= cutoff
         IN IF parsed.err THEN [err |-> TRUE, pods |-> <<>>]
            ELSE [err |-> FALSE, pods |-> SelectSeq(pods, Old)]

filterPodsForCleanup(pods) ==
    IF cleanOlderThan = "" THEN [err |-> FALSE, pods |-> pods]
    ELSE LET parsed == ParseDuration(cleanOlderThan)
             cutoff == Now - parsed.d
             Before(p) == p.CreationTimestamp < cutoff
         IN IF parsed.err THEN [err |-> TRUE, pods |-> <<>>]
            ELSE [err |-> FALSE, pods |-> SelectSeq(pods, Before)]

\* what the operator may type at "Do you want to continue? (y/N): "
ConfirmAnswers == {"y", "Y", "yes", "YES", "n", "no", ""}

\* strings.ToLower on these answers
ToLower(s) == IF s = "Y" THEN "y" ELSE IF s = "YES" THEN "yes" ELSE s

\* askForConfirmation going on unless the answer is a no
askForConfirmationUnlessNo(response) == ~(ToLower(response) \in {"n", "no"})

askForConfirmation(response) == ToLower(response) = "y" \/ ToLower(response) = "yes"

\* messages of runClean
MsgNoPods == "No debug pods found to clean"
MsgNoMatch == "No debug pods match the cleanup criteria"
MsgCancelled == "Cleanup cancelled"
MsgWarning == "Warning: Failed to delete pod %s/%s"
MsgDeleted == "Deleted debug pod %s/%s"
MsgReport == "Successfully deleted %d debug pods"

ErrGetPods == "failed to get debug pods"
ErrFilter == "failed to filter pods"

Printf(m, a) == Append(printed, [msg |-> m, args |-> a])

\* one entry of the log of runClean: a confirmation prompt with the answer
\* typed, or a "kubectl delete pod name -n namespace" and whether it succeeded
CleanOp(o, n, ns, k, a) ==
    [op |-> o, name |-> n, namespace |-> ns, ok |-> k, answer |-> a]

InStore(n, ns) == \E p \in store : p.name = n /\ p.namespace = ns

InitClean ==
    /\ DebugIdle
    /\ FnIdle
    /\ cleanAllNamespaces \in BOOLEAN
    /\ cleanForce \in BOOLEAN
    /\ cleanOlderThan \in DurationTexts
    /\ store \in Stores
    /\ cpc = "getDebugPods"
    /\ debugPods = <<>>
    /\ podsToDelete = <<>>
    /\ cleanIdx = 0
    /\ deletedCount = 0
    /\ cleanOps = <<>>
    /\ printed = <<>>
    /\ cleanErr = "none"

\* runClean, part_004:35-43: getDebugPods, its error, the empty result
runCleanGetDebugPods ==
    /\ cpc = "getDebugPods"
    /\ \E outcome \in {"ok", "error"} \cup
                      (IF getDebugPodsItems = <<>> THEN {"No resources found"} ELSE {}) :
        IF outcome = "error"
        THEN /\ cleanErr' = ErrGetPods
             /\ cpc' = "done"
             /\ UNCHANGED <<debugPods, printed>>
        ELSE /\ debugPods' = IF outcome = "ok" THEN getDebugPodsItems ELSE <<>>
             /\ IF Len(debugPods') = 0
                THEN /\ printed' = Printf(MsgNoPods, <<>>)
                     /\ cleanErr' = "nil"
                     /\ cpc' = "done"
                ELSE /\ cpc' = "filter"
                     /\ UNCHANGED <<printed, cleanErr>>
    /\ UNCHANGED <<debugVars, fnVars, cleanAllNamespaces, cleanForce, cleanOlderThan,
                   store, podsToDelete, cleanIdx, deletedCount, cleanOps>>

\* runClean, part_004:45-53: filterPodsForCleanup, its error, the empty result
runCleanFilter ==
    /\ cpc = "filter"
    /\ LET r == filterPodsForCleanup(debugPods) IN
        IF r.err
        THEN /\ cleanErr' = ErrFilter
             /\ cpc' = "done"
             /\ UNCHANGED <<podsToDelete, printed>>
        ELSE /\ podsToDelete' = r.pods
             /\ IF Len(r.pods) = 0
                THEN /\ printed' = Printf(MsgNoMatch, <<>>)
                     /\ cleanErr' = "nil"
                     /\ cpc' = "done"
                ELSE /\ cpc' = "confirm"
                     /\ UNCHANGED <<printed, cleanErr>>
    /\ UNCHANGED <<debugVars, fnVars, cleanAllNamespaces, cleanForce, cleanOlderThan,
                   store, debugPods, cleanIdx, deletedCount, cleanOps>>

\* runClean, part_004:55-70: the confirmation unless cleanForce
runCleanConfirm ==
    /\ cpc = "confirm"
    /\ IF cleanForce
       THEN /\ cpc' = "delete"
            /\ UNCHANGED <<cleanOps, printed, cleanErr>>
       ELSE \E response \in ConfirmAnswers :
            /\ cleanOps' = Append(cleanOps, CleanOp("confirm", "", "", TRUE, response))
            /\ IF ~askForConfirmation(response)
               THEN /\ printed' = Printf(MsgCancelled, <<>>)
                    /\ cleanErr' = "nil"
                    /\ cpc' = "done"
               ELSE /\ cpc' = "delete"
                    /\ UNCHANGED <<printed, cleanErr>>
    /\ UNCHANGED <<debugVars, fnVars, cleanAllNamespaces, cleanForce, cleanOlderThan,
                   store, debugPods, podsToDelete, cleanIdx, deletedCount>>

\* the loop of runClean going over the located records instead of the selection
runCleanDeleteLocated ==
    /\ cpc = "delete"
    /\ cleanIdx < Len(podsToDelete)
    /\ LET pod == debugPods[cleanIdx + 1] IN
       \E reqOk \in BOOLEAN :
        LET deleted == reqOk /\ InStore(pod.Name, pod.Namespace) IN
        /\ cleanOps' = Append(cleanOps,
                              CleanOp("delete", pod.Name, pod.Namespace, deleted, ""))
        /\ store' = IF deleted
                    THEN { p \in store : ~(p.name = pod.Name /\ p.namespace = pod.Namespace) }
                    ELSE store
        /\ printed' = Printf(IF deleted THEN MsgDeleted ELSE MsgWarning,
                             <<pod.Namespace, pod.Name>>)
        /\ deletedCount' = IF deleted THEN deletedCount + 1 ELSE deletedCount
        /\ cleanIdx' = cleanIdx + 1
    /\ UNCHANGED <<debugVars, fnVars, cleanAllNamespaces, cleanForce, cleanOlderThan,
                   cpc, debugPods, podsToDelete, cleanErr>>

\* runClean, part_004:73-82: one iteration of the delete loop
runCleanDelete ==
    /\ cpc = "delete"
    /\ cleanIdx < Len(podsToDelete)
    /\ LET pod == podsToDelete[cleanIdx + 1] IN
       \E reqOk \in BOOLEAN :
        LET deleted == reqOk /\ InStore(pod.Name, pod.Namespace) IN
        /\ cleanOps' = Append(cleanOps,
                              CleanOp("delete", pod.Name, pod.Namespace, deleted, ""))
        /\ store' = IF deleted
                    THEN { p \in store : ~(p.name = pod.Name /\ p.namespace = pod.Namespace) }
                    ELSE store
        /\ printed' = Printf(IF deleted THEN MsgDeleted ELSE MsgWarning,
                             <<pod.Namespace, pod.Name>>)
        /\ deletedCount' = IF deleted THEN deletedCount + 1 ELSE deletedCount
        /\ cleanIdx' = cleanIdx + 1
    /\ UNCHANGED <<debugVars, fnVars, cleanAllNamespaces, cleanForce, cleanOlderThan,
                   cpc, debugPods, podsToDelete, cleanErr>>

\* runClean, part_004:84-85: the final report
runCleanReport ==
    /\ cpc = "delete"
    /\ cleanIdx = Len(podsToDelete)
    /\ printed' = Printf(MsgReport, <<deletedCount>>)
    /\ cleanErr' = "nil"
    /\ cpc' = "done"
    /\ UNCHANGED <<debugVars, fnVars, cleanAllNamespaces, cleanForce, cleanOlderThan,
                   store, debugPods, podsToDelete, cleanIdx, deletedCount, cleanOps>>

\* another actor removes a pod that getDebugPods returned, while runClean runs
CleanExternalRemove ==
    /\ cpc \in {"filter", "confirm", "delete"}
    /\ \E p \in store :
        /\ \E i \in DOMAIN debugPods :
              debugPods[i].Name = p.name /\ debugPods[i].Namespace = p.namespace
        /\ store' = store \ {p}
    /\ UNCHANGED <<debugVars, fnVars, cleanAllNamespaces, cleanForce, cleanOlderThan,
                   cpc, debugPods, podsToDelete, cleanIdx, deletedCount, cleanOps,
                   printed, cleanErr>>

NextClean ==
    \/ runCleanGetDebugPods
    \/ runCleanFilter
    \/ runCleanConfirm
    \/ runCleanDelete
    \/ runCleanReport
    \/ CleanExternalRemove

SpecClean == InitClean /\ [][NextClean]_vars

----------------------------------------------------------------------------
(* Vocabulary of the properties of runClean *)

CIdx == DOMAIN cleanOps
CleanDeletes == { i \in CIdx : cleanOps[i].op = "delete" }
CleanConfirms == { i \in CIdx : cleanOps[i].op = "confirm" }

\* runClean has returned
CleanReturned == cpc = "done"

\* filterPodsForCleanup was called and returned a selection
FilterReturned ==
    \/ cpc \in {"confirm", "delete"}
    \/ CleanReturned /\ debugPods # <<>> /\ cleanErr = "nil"

\* the position of record r in the located sequence
PositionIn(seq, r) == CHOOSE j \in DOMAIN seq : seq[j] = r

\* thresholds that are durations, and the duration each denotes
ValidThresholds == {"0h", "1h", "2h", "-1h"}
HoursOf(s) == IF s = "0h" THEN 0 ELSE IF s = "1h" THEN 1 ELSE IF s = "2h" THEN 2 ELSE -1

(* C17: the selection of filterPodsForCleanup is the located sequence when
   no threshold is given; with a threshold T it holds exactly the located
   records created strictly before now - T (one created at now - T is not
   selected), each once and in the order of the located sequence. *)
C17_Selection ==
    FilterReturned =>
        /\ cleanOlderThan = "" => podsToDelete = debugPods
        /\ cleanOlderThan \in ValidThresholds =>
            LET cutoff == Now - HoursOf(cleanOlderThan) IN
            /\ \A i \in DOMAIN podsToDelete :
                  /\ podsToDelete[i].CreationTimestamp < cutoff
                  /\ \E j \in DOMAIN debugPods : debugPods[j] = podsToDelete[i]
            /\ \A j \in DOMAIN debugPods :
                  (debugPods[j].CreationTimestamp < cutoff)
                      <=> (\E i \in DOMAIN podsToDelete : podsToDelete[i] = debugPods[j])
            /\ \A j \in DOMAIN debugPods :
                  debugPods[j].CreationTimestamp = cutoff
                      => \A i \in DOMAIN podsToDelete : podsToDelete[i] # debugPods[j]
            /\ \A i1, i2 \in DOMAIN podsToDelete :
                  i1 < i2 => PositionIn(debugPods, podsToDelete[i1])
                               < PositionIn(debugPods, podsToDelete[i2])
        /\ cleanOlderThan \in ValidThresholds \cup {""}

C17_Witness ==
    /\ cpc = "confirm" /\ cleanOlderThan = "1h"
    /\ Len(debugPods) = 3 /\ Len(podsToDelete) = 2
    /\ debugPods[2].CreationTimestamp = Now - 1
    /\ podsToDelete = <<debugPods[1], debugPods[3]>>

\* answers that say yes
SaysYes(a) == a \in {"y", "Y", "yes", "YES"}

(* C18: without cleanForce no delete is issued before the one confirmation
   prompt of the invocation was answered with a yes; after any other answer,
   the empty one included, runClean returns success with no delete issued
   and nothing removed by it. *)
C18_ConfirmationGate ==
    ~cleanForce =>
        /\ Cardinality(CleanConfirms) <= 1
        /\ \A i \in CleanDeletes :
              \E j \in CleanConfirms : j < i /\ SaysYes(cleanOps[j].answer)
        /\ \A j \in CleanConfirms : ~SaysYes(cleanOps[j].answer) =>
              /\ CleanDeletes = {}
              /\ deletedCount = 0
              /\ CleanReturned /\ cleanErr = "nil"
        /\ (cpc = "delete") => CleanConfirms # {}

C18_Witness ==
    /\ ~cleanForce /\ CleanReturned /\ cleanErr = "nil"
    /\ Len(podsToDelete) = 3
    /\ \E j \in CleanConfirms : cleanOps[j].answer = ""
    /\ CleanDeletes = {}

\* delete attempts made for the selected record k
AttemptsFor(k) ==
    { i \in CleanDeletes : /\ cleanOps[i].name = podsToDelete[k].Name
                           /\ cleanOps[i].namespace = podsToDelete[k].Namespace }

Succeeded == Cardinality({ i \in CleanDeletes : cleanOps[i].ok })
Attempted == Cardinality(CleanDeletes)

\* the delete loop ran to its end and runClean returned
BatchReturned ==
    /\ CleanReturned
    /\ printed # <<>>
    /\ printed[Len(printed)].msg = MsgReport

(* C19: every selected record gets exactly one delete attempt even when
   earlier deletes failed, the invocation does not fail for them, and the
   final report states how many deletes succeeded out of how many were
   attempted. *)
C19_ReportsSucceededOfAttempted ==
    BatchReturned =>
        /\ \A k \in DOMAIN podsToDelete : Cardinality(AttemptsFor(k)) = 1
        /\ cleanErr = "nil"
        /\ printed[Len(printed)].args = <<Succeeded, Attempted>>

(* What holds of the batch: the selected records are attempted one by one in
   order, a failed delete does not end the loop, every selected record has got
   exactly one attempt when the loop ends, runClean then returns success, and
   the final report states how many deletes succeeded, and only that. *)
BatchDeletesAllSelected ==
    /\ cpc = "delete" =>
          /\ Attempted = cleanIdx
          /\ \A k \in 1..cleanIdx : Cardinality(AttemptsFor(k)) = 1
          /\ \A k \in (cleanIdx + 1)..Len(podsToDelete) : AttemptsFor(k) = {}
    /\ BatchReturned =>
          /\ \A k \in DOMAIN podsToDelete : Cardinality(AttemptsFor(k)) = 1
          /\ Attempted = Len(podsToDelete)
          /\ cleanErr = "nil"
          /\ deletedCount = Succeeded
          /\ printed[Len(printed)].args = <<Succeeded>>

\* thresholds that are given and are not durations
MalformedThresholds == DurationTexts \ (ValidThresholds \cup {""})

(* C20: every invocation of runClean given an unparseable threshold ends in
   an error and issues no delete, whatever the located set is, the empty one
   included. *)
C20_MalformedThresholdFails ==
    (cleanOlderThan \in MalformedThresholds /\ CleanReturned) =>
        /\ ~(cleanErr \in {"none", "nil"})
        /\ CleanDeletes = {}

----------------------------------------------------------------------------
\* getDebugPods was called and returned a list
GetReturned ==
    \/ cpc \in {"filter", "confirm", "delete"}
    \/ CleanReturned /\ cleanErr # ErrGetPods

\* pod p is within the namespace scope the clean command was given
InCleanScope(ns) == cleanAllNamespaces \/ ns = namespace

Located(n, ns) ==
    \E i \in DOMAIN debugPods : debugPods[i].Name = n /\ debugPods[i].Namespace = ns

(* C21: the sessions runClean locates are the debug pods of all namespaces
   when clean was given --all-namespaces and those of the configured
   namespace otherwise: every located record is a debug pod within that
   scope, and every debug pod within that scope that is in the cluster was
   located. *)
C21_CleanNamespaceScope ==
    GetReturned =>
        /\ \A i \in DOMAIN debugPods : InCleanScope(debugPods[i].Namespace)
        /\ \A p \in store :
              (p.debug /\ InCleanScope(p.namespace)) => Located(p.name, p.namespace)

----------------------------------------------------------------------------
(* The two locator queries as functions of what kubectl answered:
   getDebugPods (list.go:68-120) and findExistingDebugPod (part_005:42-72) *)

NoResources == "No resources found"

\* stderr of a locator query, as the set of known patterns it contains
LocatorStderr == StderrTexts \cup {{NoResources}}

\* the first line that is not empty, "" when there is none
FirstNonEmpty(lines) ==
    LET nz == { i \in DOMAIN lines : lines[i] # "" }
    IN IF nz = {} THEN "" ELSE lines[CHOOSE i \in nz : \A j \in nz : i <= j]

\* findExistingDebugPod on the answer of "kubectl get pod -l ... --no-headers"
findExistingDebugPodOutcome(resp) ==
    IF resp.failed
    THEN IF NoResources \in resp.stderr
         THEN [err |-> FALSE, name |-> ""]
         ELSE [err |-> TRUE, name |-> ""]
    ELSE [err |-> FALSE, name |-> FirstNonEmpty(resp.lines)]

\* getDebugPods returning an empty list for every failed call
getDebugPodsSwallowing(resp) ==
    IF resp.failed \/ resp.garbled
    THEN [err |-> FALSE, pods |-> <<>>]
    ELSE [err |-> FALSE, pods |-> [ i \in DOMAIN resp.items |-> DebugPodInfo(resp.items[i]) ]]

\* getDebugPods on the answer of "kubectl get pods -l ... -o json"
getDebugPods(resp) ==
    IF resp.failed
    THEN IF NoResources \in resp.stderr
         THEN [err |-> FALSE, pods |-> <<>>]
         ELSE [err |-> TRUE, pods |-> <<>>]
    ELSE IF resp.garbled
    THEN [err |-> TRUE, pods |-> <<>>]
    ELSE [err |-> FALSE, pods |-> [ i \in DOMAIN resp.items |-> DebugPodInfo(resp.items[i]) ]]

\* output lines of the name query: up to two lines, each a name or blank
NameLines ==
    LET L == {"", "debug-T-old1", "debug-T-old2"}
    IN {<<>>} \cup { <<a>> : a \in L } \cup { <<a, b>> : a \in L, b \in L }

\* answers of the name query: a failed call with any stderr, or a call that
\* succeeded with its lines (kubectl says "No resources found" on stderr and
\* still succeeds when nothing matches)
FindResponses ==
    { [failed |-> TRUE, stderr |-> s, lines |-> <<>>] : s \in LocatorStderr }
        \cup { [failed |-> FALSE, stderr |-> {}, lines |-> l] : l \in NameLines }
        \cup { [failed |-> FALSE, stderr |-> {NoResources}, lines |-> <<>>] }

\* answers of the list query: a failed call, output that is not a pod list,
\* or the items, in the store's order
GetResponses ==
    { [failed |-> TRUE, stderr |-> s, garbled |-> FALSE, items |-> <<>>] :
        s \in LocatorStderr }
        \cup { [failed |-> FALSE, stderr |-> {}, garbled |-> TRUE, items |-> <<>>] }
        \cup { [failed |-> FALSE, stderr |-> {}, garbled |-> FALSE,
                items |-> InStoreOrder({ p \in S : p.debug })] : S \in Stores }
        \cup { [failed |-> FALSE, stderr |-> {NoResources}, garbled |-> FALSE,
                items |-> <<>>] }

InitLocator ==
    /\ DebugIdle
    /\ CleanIdle
    /\ args \in { [fn |-> "findExistingDebugPod", resp |-> r] : r \in FindResponses }
            \cup { [fn |-> "getDebugPods", resp |-> r] : r \in GetResponses }
    /\ ret = [done |-> FALSE]

CallFindExistingDebugPod ==
    /\ ~ret.done /\ args.fn = "findExistingDebugPod"
    /\ ret' = [done |-> TRUE, value |-> findExistingDebugPodOutcome(args.resp)]
    /\ UNCHANGED <<debugVars, cleanVars, args>>

CallGetDebugPods ==
    /\ ~ret.done /\ args.fn = "getDebugPods"
    /\ ret' = [done |-> TRUE, value |-> getDebugPods(args.resp)]
    /\ UNCHANGED <<debugVars, cleanVars, args>>

NextLocator ==
    \/ CallFindExistingDebugPod
    \/ CallGetDebugPods

SpecLocator == InitLocator /\ [][NextLocator]_vars

\* the store reported no matching resources
ReportsNothing(resp, records) ==
    \/ resp.failed /\ NoResources \in resp.stderr
    \/ ~resp.failed /\ records = <<>>

\* the query failed in any other way
OtherFailure(resp) == resp.failed /\ ~(NoResources \in resp.stderr)

(* C22: when the store reports no matching resources, by an empty item list
   or by a failed call whose stderr says "No resources found", the locator
   returns no record and no error; every other failure of the query (and
   output that cannot be parsed) is returned as an error. *)
C22_EmptyIsSuccess ==
    ret.done =>
        /\ args.fn = "getDebugPods" =>
            /\ (ReportsNothing(args.resp, args.resp.items) /\ ~args.resp.garbled)
                  => ret.value = [err |-> FALSE, pods |-> <<>>]
            /\ (OtherFailure(args.resp) \/ args.resp.garbled) => ret.value.err
            /\ ~ret.value.err => Len(ret.value.pods) = Len(args.resp.items)
        /\ args.fn = "findExistingDebugPod" =>
            /\ ReportsNothing(args.resp, SelectSeq(args.resp.lines, LAMBDA l : l # ""))
                  => ret.value = [err |-> FALSE, name |-> ""]
            /\ OtherFailure(args.resp) => ret.value.err
            /\ (~args.resp.failed /\ \E i \in DOMAIN args.resp.lines : args.resp.lines[i] # "")
                  => (~ret.value.err /\ ret.value.name # "")

C22_Witness ==
    /\ ret.done /\ args.fn = "getDebugPods"
    /\ args.resp.failed /\ args.resp.stderr = {NoResources}
    /\ ret.value = [err |-> FALSE, pods |-> <<>>]

----------------------------------------------------------------------------
(* The session builder: getSecurityContextForProfile (part_005:223-271) and
   the container of createDebugPod (part_005:289-378). A pointer field is the
   empty tuple when nil and a one-element tuple otherwise. *)

Nil == <<>>
Ptr(v) == <<v>>

RuntimeDefault == "RuntimeDefault"
Unconfined == "Unconfined"

RecognizedProfiles == {"restricted", "baseline", "general", "privileged"}

\* profile names the flag may carry: the recognized ones, none, and others
ProfileNames == RecognizedProfiles \cup {"", "sysadmin", "Restricted"}

\* corev1.SecurityContext and corev1.PodSecurityContext as the code fills them
SecurityContext(ape, priv, add, drop, nonRoot, user, seccomp) ==
    [AllowPrivilegeEscalation |-> ape, Privileged |-> priv,
     CapabilitiesAdd |-> add, CapabilitiesDrop |-> drop,
     RunAsNonRoot |-> nonRoot, RunAsUser |-> user, SeccompProfile |-> seccomp]

PodSecurityContext(nonRoot, user, seccomp) ==
    [RunAsNonRoot |-> nonRoot, RunAsUser |-> user, SeccompProfile |-> seccomp]

\* getSecurityContextForProfile treating every unrecognized name as restricted
getSecurityContextForProfileFailClosed(profileName) ==
    IF profileName \in {"baseline", "general", "privileged"}
    THEN IF profileName = "baseline"
         THEN [container |-> SecurityContext(Ptr(FALSE), Nil, {}, {"ALL"}, Nil, Nil, RuntimeDefault),
               pod |-> PodSecurityContext(Nil, Nil, RuntimeDefault)]
         ELSE IF profileName = "privileged"
         THEN [container |-> SecurityContext(Ptr(TRUE), Ptr(TRUE), {"ALL"}, {}, Nil, Nil, Unconfined),
               pod |-> PodSecurityContext(Nil, Nil, Unconfined)]
         ELSE [container |-> SecurityContext(Nil, Nil, {}, {}, Nil, Nil, RuntimeDefault),
               pod |-> PodSecurityContext(Nil, Nil, RuntimeDefault)]
    ELSE [container |-> SecurityContext(Ptr(FALSE), Nil, {}, {"ALL"}, Ptr(TRUE), Ptr(1000),
                                        RuntimeDefault),
          pod |-> PodSecurityContext(Ptr(TRUE), Ptr(1000), RuntimeDefault)]

\* getSecurityContextForProfile with the restricted profile left running as
\* any user and the privileged profile left under the default seccomp
getSecurityContextForProfileLax(profileName) ==
    IF profileName = "restricted"
    THEN [container |-> SecurityContext(Ptr(FALSE), Nil, {}, {"ALL"}, Nil, Nil, RuntimeDefault),
          pod |-> PodSecurityContext(Nil, Nil, RuntimeDefault)]
    ELSE IF profileName = "baseline"
    THEN [container |-> SecurityContext(Ptr(FALSE), Nil, {}, {"ALL"}, Nil, Nil, RuntimeDefault),
          pod |-> PodSecurityContext(Nil, Nil, RuntimeDefault)]
    ELSE IF profileName = "privileged"
    THEN [container |-> SecurityContext(Ptr(TRUE), Ptr(TRUE), {"ALL"}, {}, Nil, Nil, RuntimeDefault),
          pod |-> PodSecurityContext(Nil, Nil, RuntimeDefault)]
    ELSE [container |-> SecurityContext(Nil, Nil, {}, {}, Nil, Nil, RuntimeDefault),
          pod |-> PodSecurityContext(Nil, Nil, RuntimeDefault)]

getSecurityContextForProfile(profileName) ==
    IF profileName = "restricted"
    THEN [container |-> SecurityContext(Ptr(FALSE), Nil, {}, {"ALL"}, Ptr(TRUE), Ptr(1000),
                                        RuntimeDefault),
          pod |-> PodSecurityContext(Ptr(TRUE), Ptr(1000), RuntimeDefault)]
    ELSE IF profileName = "baseline"
    THEN [container |-> SecurityContext(Ptr(FALSE), Nil, {}, {"ALL"}, Nil, Nil, RuntimeDefault),
          pod |-> PodSecurityContext(Nil, Nil, RuntimeDefault)]
    ELSE IF profileName = "privileged"
    THEN [container |-> SecurityContext(Ptr(TRUE), Ptr(TRUE), {"ALL"}, {}, Nil, Nil, Unconfined),
          pod |-> PodSecurityContext(Nil, Nil, Unconfined)]
    ELSE [container |-> SecurityContext(Nil, Nil, {}, {}, Nil, Nil, RuntimeDefault),
          pod |-> PodSecurityContext(Nil, Nil, RuntimeDefault)]

\* what getTargetPodSecurityContext (part_005:208-221) returned: an error, a
\* nil context, or the pod-level security context of the target
TargetContexts ==
    { [kind |-> "error"], [kind |-> "nil"] }
        \cup { [kind |-> "context", context |-> PodSecurityContext(nr, u, "")] :
                 nr \in {Nil, Ptr(TRUE), Ptr(FALSE)}, u \in {Nil, Ptr(0), Ptr(2000)} }

\* the target declares a numeric run-as-user
DeclaresUser(t) == t.kind = "context" /\ t.context.RunAsUser # Nil

\* corev1.ResourceRequirements: limits and requests by resource name
Resources(limits, requests) == [Limits |-> limits, Requests |-> requests]

NoResourceList == [r \in {} |-> ""]

\* the resources the code asks for in createDebugPod and createPodCopy
ConfiguredResources(c) ==
    Resources([r \in {"memory"} |-> c.MemoryLimit],
              [r \in {"cpu", "memory"} |->
                  IF r = "cpu" THEN c.CPURequest ELSE c.MemoryRequest])

\* createDebugPod with a shell whenever stdin is kept open
commandOfShellOnStdin(c) ==
    IF c.Interactive THEN <<"bash">> ELSE <<"sleep", "infinity">>

\* createDebugPod, part_005:354-360
commandOf(c) ==
    IF c.Interactive /\ c.TTY THEN <<"bash">> ELSE <<"sleep", "infinity">>

\* createDebugPod taking the whole container policy from the profile
createDebugPodSpecProfileOnly(c, target) ==
    LET resolved == getSecurityContextForProfile(c.Profile)
    IN [SecurityContext |-> resolved.pod,
        Container |-> [Name |-> "debugger", Command |-> commandOf(c),
                       Stdin |-> TRUE, TTY |-> TRUE,
                       SecurityContext |-> resolved.container,
                       Resources |-> ConfiguredResources(c)]]

\* createDebugPod: the pod-level security context and the debug container
createDebugPodSpec(c, target) ==
    LET fromTarget == c.PodName # "" /\ DeclaresUser(target)
        podContext == IF fromTarget THEN target.context
                      ELSE getSecurityContextForProfile(c.Profile).pod
        profileContext == getSecurityContextForProfile(c.Profile).container
        containerContext ==
            IF podContext.RunAsUser # Nil
            THEN [profileContext EXCEPT !.RunAsUser = podContext.RunAsUser,
                                        !.RunAsNonRoot = podContext.RunAsNonRoot]
            ELSE profileContext
    IN [SecurityContext |-> podContext,
        Container |-> [Name |-> "debugger", Command |-> commandOf(c),
                       Stdin |-> TRUE, TTY |-> TRUE,
                       SecurityContext |-> containerContext,
                       Resources |-> ConfiguredResources(c)]]

\* createPodCopy: what "kubectl debug --copy-to" is given for the container
createPodCopyArgs(c, target) ==
    [copyTo |-> generateUniqueName(c),
     custom |-> Ptr(ConfiguredResources(c)),
     profile |-> IF DeclaresUser(target) \/ c.Profile # ""
                 THEN Ptr(IF c.Profile = "" THEN "general" ELSE c.Profile)
                 ELSE Nil,
     i |-> c.Interactive, t |-> c.TTY]

\* executeAddContainer: what "kubectl debug --target" is given
executeAddContainerArgs(c) ==
    [custom |-> Nil,
     profile |-> Ptr(IF c.Profile = "" THEN "general" ELSE c.Profile),
     i |-> c.Interactive, t |-> c.TTY]

\* the resources the debug container is created with
ResourcesGiven(built) ==
    IF built.custom = Nil THEN Resources(NoResourceList, NoResourceList)
    ELSE built.custom[1]

BuilderFunctions == {"getSecurityContextForProfile", "createDebugPod", "createPodCopy",
                     "executeAddContainer"}

\* the fields of DebugConfig the builder reads
BuilderConfigs ==
    [PodName : {"", Target}, Interactive : BOOLEAN, TTY : BOOLEAN,
     Profile : ProfileNames, CPURequest : {"100m", "250m"},
     MemoryLimit : {"128Mi", "256Mi"}, MemoryRequest : {"64Mi", "128Mi"}]

InitBuilder ==
    /\ DebugIdle
    /\ CleanIdle
    /\ args \in { a \in [fn : BuilderFunctions, config : BuilderConfigs, target : TargetContexts] :
                    /\ a.fn \in {"createPodCopy", "executeAddContainer"} => a.config.PodName # ""
                    /\ a.config.PodName = "" => a.target = [kind |-> "nil"] }
    /\ ret = [done |-> FALSE]

ResolveProfile ==
    /\ ~ret.done /\ args.fn = "getSecurityContextForProfile"
    /\ ret' = [done |-> TRUE, value |-> getSecurityContextForProfile(args.config.Profile)]
    /\ UNCHANGED <<debugVars, cleanVars, args>>

BuildDebugPod ==
    /\ ~ret.done /\ args.fn = "createDebugPod"
    /\ ret' = [done |-> TRUE, value |-> createDebugPodSpec(args.config, args.target)]
    /\ UNCHANGED <<debugVars, cleanVars, args>>

BuildPodCopy ==
    /\ ~ret.done /\ args.fn = "createPodCopy"
    /\ ret' = [done |-> TRUE, value |-> createPodCopyArgs(args.config, args.target)]
    /\ UNCHANGED <<debugVars, cleanVars, args>>

BuildAddContainer ==
    /\ ~ret.done /\ args.fn = "executeAddContainer"
    /\ ret' = [done |-> TRUE, value |-> executeAddContainerArgs(args.config)]
    /\ UNCHANGED <<debugVars, cleanVars, args>>

NextBuilder ==
    \/ ResolveProfile
    \/ BuildDebugPod
    \/ BuildPodCopy
    \/ BuildAddContainer

SpecBuilder == InitBuilder /\ [][NextBuilder]_vars

Returned(f) == ret.done /\ args.fn = f

(* C23: for every profile name other than restricted, baseline, general and
   privileged, the empty name included, getSecurityContextForProfile returns
   what it returns for general: the runtime-default seccomp type and nothing
   else (no capability change, no run-as setting, no privilege setting). *)
C23_ResolverFailOpen ==
    (Returned("getSecurityContextForProfile")
        /\ ~(args.config.Profile \in {"restricted", "baseline", "privileged"})) =>
        /\ ret.value = getSecurityContextForProfile("general")
        /\ ret.value.container =
              SecurityContext(Nil, Nil, {}, {}, Nil, Nil, RuntimeDefault)
        /\ ret.value.pod = PodSecurityContext(Nil, Nil, RuntimeDefault)

C23_Witness ==
    /\ Returned("getSecurityContextForProfile") /\ args.config.Profile = "sysadmin"
    /\ ret.value.container.SeccompProfile = RuntimeDefault

(* C24: for restricted the container policy has privilege escalation
   disabled, all capabilities dropped, non-root enforced and the fixed user
   1000; for privileged escalation is enabled, all capabilities are added and
   seccomp is unconfined. *)
C24_RestrictedAndPrivileged ==
    Returned("getSecurityContextForProfile") =>
        /\ args.config.Profile = "restricted" =>
            /\ ret.value.container.AllowPrivilegeEscalation = Ptr(FALSE)
            /\ ret.value.container.CapabilitiesDrop = {"ALL"}
            /\ ret.value.container.CapabilitiesAdd = {}
            /\ ret.value.container.RunAsNonRoot = Ptr(TRUE)
            /\ ret.value.container.RunAsUser # Nil
            /\ ret.value.container.RunAsUser[1] = 1000
            /\ ret.value.container.RunAsUser[1] # 0
        /\ args.config.Profile = "privileged" =>
            /\ ret.value.container.AllowPrivilegeEscalation = Ptr(TRUE)
            /\ ret.value.container.CapabilitiesAdd = {"ALL"}
            /\ ret.value.container.CapabilitiesDrop = {}
            /\ ret.value.container.SeccompProfile = Unconfined

C24_Witness ==
    /\ Returned("getSecurityContextForProfile") /\ args.config.Profile = "privileged"
    /\ ret.value.pod.SeccompProfile = Unconfined

(* C25: in the pod createDebugPod builds for a target, when the target's
   pod-level security context declares a run-as-user the debug container
   runs as that user, and its capability sets, privilege escalation and
   seccomp type are those of the named profile; when the target declares
   none (or could not be read), the pod-level and the container-level policy
   are the profile's. *)
C25_RunAsUserPrecedence ==
    (Returned("createDebugPod") /\ args.config.PodName # "") =>
        LET resolved == getSecurityContextForProfile(args.config.Profile)
            built == ret.value.Container.SecurityContext
        IN /\ DeclaresUser(args.target) =>
                /\ built.RunAsUser = args.target.context.RunAsUser
                /\ built.CapabilitiesAdd = resolved.container.CapabilitiesAdd
                /\ built.CapabilitiesDrop = resolved.container.CapabilitiesDrop
                /\ built.AllowPrivilegeEscalation = resolved.container.AllowPrivilegeEscalation
                /\ built.SeccompProfile = resolved.container.SeccompProfile
           /\ ~DeclaresUser(args.target) =>
                /\ ret.value.SecurityContext = resolved.pod
                /\ built = resolved.container

C25_Witness ==
    /\ Returned("createDebugPod") /\ args.config.PodName # ""
    /\ args.config.Profile = "restricted"
    /\ DeclaresUser(args.target) /\ args.target.context.RunAsUser = Ptr(2000)
    /\ ret.value.Container.SecurityContext.RunAsUser = Ptr(2000)
    /\ ret.value.Container.SecurityContext.CapabilitiesDrop = {"ALL"}

\* the resources of the debug container a builder function asked for
ResourcesOfBuilt ==
    IF args.fn = "createDebugPod" THEN ret.value.Container.Resources
    ELSE ResourcesGiven(ret.value)

HasConfiguredShape(r, c) ==
    /\ DOMAIN r.Limits = {"memory"}
    /\ r.Limits["memory"] = c.MemoryLimit
    /\ DOMAIN r.Requests = {"cpu", "memory"}
    /\ r.Requests["cpu"] = c.CPURequest
    /\ r.Requests["memory"] = c.MemoryRequest

(* C26: whichever of createDebugPod (Standalone), createPodCopy (PodCopy)
   and executeAddContainer (EphemeralContainer) builds the debug container,
   the container is given exactly one memory limit, one CPU request and one
   memory request, those of the configuration, and no CPU limit. *)
C26_SameResourceShape ==
    (ret.done /\ args.fn \in {"createDebugPod", "createPodCopy", "executeAddContainer"}) =>
        HasConfiguredShape(ResourcesOfBuilt, args.config)

\* what holds of the code: the two builders of a pod apply the shape, the
\* builder of an ephemeral container asks for no resources at all
PodBuildersApplyResourceShape ==
    /\ (ret.done /\ args.fn \in {"createDebugPod", "createPodCopy"}) =>
          HasConfiguredShape(ResourcesOfBuilt, args.config)
    /\ Returned("executeAddContainer") =>
          ResourcesOfBuilt = Resources(NoResourceList, NoResourceList)

(* C27: the command of the container createDebugPod builds is the shell
   exactly when the configuration asks both to keep stdin open (Interactive)
   and to allocate a terminal (TTY); in every other case it is
   "sleep infinity". *)
C27_CommandShellOrSleep ==
    Returned("createDebugPod") =>
        /\ (ret.value.Container.Command = <<"bash">>)
              <=> (args.config.Interactive /\ args.config.TTY)
        /\ ~(args.config.Interactive /\ args.config.TTY) =>
              ret.value.Container.Command = <<"sleep", "infinity">>

C27_Witness ==
    /\ Returned("createDebugPod")
    /\ args.config.Interactive /\ ~args.config.TTY
    /\ ret.value.Container.Command = <<"sleep", "infinity">>

----------------------------------------------------------------------------
(* generateUniqueName as a function of the clock and of the random source.
   A name is the sequence of the pieces Sprintf joins: the literal "debug",
   the hyphens, the target's name, and the digits one by one. *)

DigitChars == <<"0", "1", "2", "3", "4", "5", "6", "7", "8", "9">>

\* fmt.Sprintf("%0<width>d", n) for 0 <= n < 10^width
RECURSIVE SprintfPadded(_, _)
SprintfPadded(width, n) ==
    IF width = 0 THEN <<>>
    ELSE Append(SprintfPadded(width - 1, n \div 10), DigitChars[(n % 10) + 1])

\* the second of the day time.Now() falls in (wall clock, a fixed zone)
TimeOfDay(now) == now.sec % (24 * 3600)

\* time.Time.Format("150405"): hour, minute and second, two digits each;
\* the date and the fraction of the second are not rendered
Format150405(now) ==
    LET s == TimeOfDay(now)
    IN SprintfPadded(2, s \div 3600) \o SprintfPadded(2, (s \div 60) % 60)
          \o SprintfPadded(2, s % 60)

\* generateUniqueName rendering the hour and the minute only
generateUniqueNameMinutes(c, now, randomInt) ==
    LET s == TimeOfDay(now)
        timestamp == SprintfPadded(2, s \div 3600) \o SprintfPadded(2, (s \div 60) % 60)
                        \o <<"0", "0">>
        randomStr == SprintfPadded(4, randomInt)
    IN IF c.PodName = "" THEN <<"debug", "-">> \o timestamp \o <<"-">> \o randomStr
       ELSE <<"debug", "-", c.PodName, "-">> \o timestamp \o <<"-">> \o randomStr

\* generateUniqueName, part_005:94-105, with time.Now() and rand.Intn(10000)
\* as parameters
generateUniqueNameAt(c, now, randomInt) ==
    LET timestamp == Format150405(now)
        randomStr == SprintfPadded(4, randomInt)
    IN IF c.PodName = "" THEN <<"debug", "-">> \o timestamp \o <<"-">> \o randomStr
       ELSE <<"debug", "-", c.PodName, "-">> \o timestamp \o <<"-">> \o randomStr

\* instants of time.Now(): seconds since the epoch and the fraction
Instants ==
    [sec : {0, 1, 3661, 86399, 86400, 86401, 90061}, nsec : {0, 500000000}]

NotBefore(a, b) == a.sec < b.sec \/ (a.sec = b.sec /\ a.nsec <= b.nsec)

\* values of rand.Intn(10000)
RandomInts == {0, 7, 42, 9999}

\* two successive calls of generateUniqueName on one configuration
InitNamer ==
    /\ DebugIdle
    /\ CleanIdle
    /\ args \in { a \in [fn : {"generateUniqueName"}, config : [PodName : {"", Target}],
                         calls : [1..2 -> [now : Instants, randomInt : RandomInts]]] :
                    NotBefore(a.calls[1].now, a.calls[2].now) }
    /\ ret = [done |-> FALSE, value |-> <<>>]

CallGenerateUniqueName ==
    /\ ~ret.done /\ args.fn = "generateUniqueName"
    /\ LET call == args.calls[Len(ret.value) + 1]
       IN ret' = [done |-> Len(ret.value) = 1,
                  value |-> Append(ret.value,
                               generateUniqueNameAt(args.config, call.now, call.randomInt))]
    /\ UNCHANGED <<debugVars, cleanVars, args>>

NextNamer == CallGenerateUniqueName

SpecNamer == InitNamer /\ [][NextNamer]_vars

IsDigits(s) == \A i \in DOMAIN s : \E d \in DOMAIN DigitChars : s[i] = DigitChars[d]

\* debug-<HHMMSS>-<4 digits>, after debug-<target>- when there is a target
WellFormedName(name, podName) ==
    LET prefix == IF podName = "" THEN <<"debug", "-">>
                  ELSE <<"debug", "-", podName, "-">>
        rest == SubSeq(name, Len(prefix) + 1, Len(name))
    IN /\ Len(name) = Len(prefix) + 11
       /\ SubSeq(name, 1, Len(prefix)) = prefix
       /\ IsDigits(SubSeq(rest, 1, 6))
       /\ rest[7] = "-"
       /\ IsDigits(SubSeq(rest, 8, 11))
       /\ podName = "" => \A i \in DOMAIN name : name[i] # Target

BothNamed == Returned("generateUniqueName") /\ Len(ret.value) = 2

(* C28: two calls of generateUniqueName with the same target made at
   different instants never return the same name; each name has the form
   debug-<target>-<HHMMSS>-<4 digits>, or debug-<HHMMSS>-<4 digits> with no
   target segment when there is no target. *)
C28_DistinctAtDifferentTimestamps ==
    BothNamed =>
        /\ args.calls[1].now # args.calls[2].now => ret.value[1] # ret.value[2]
        /\ \A k \in 1..2 : WellFormedName(ret.value[k], args.config.PodName)

(* C28, as the code has it: the two names are the same exactly when the two
   calls fall on the same second of the day and draw the same random number,
   so calls whose times of day differ never return the same name, while calls
   at different instants of one second, or whole days apart, can; the form
   of the names is as stated. *)
C28_DistinctByTimeOfDayAndRandom ==
    BothNamed =>
        /\ (ret.value[1] = ret.value[2])
              <=> /\ TimeOfDay(args.calls[1].now) = TimeOfDay(args.calls[2].now)
                  /\ args.calls[1].randomInt = args.calls[2].randomInt
        /\ \A k \in 1..2 : WellFormedName(ret.value[k], args.config.PodName)

C28_Witness ==
    /\ BothNamed
    /\ args.config.PodName = Target
    /\ args.calls[1].now.sec = 86399 /\ args.calls[2].now.sec = 86400
    /\ args.calls[1].randomInt = args.calls[2].randomInt
    /\ ret.value[1] # ret.value[2]
    /\ SubSeq(ret.value[1], 5, 10) = <<"2", "3", "5", "9", "5", "9">>

----------------------------------------------------------------------------
(* The two classifiers of a collaborator's failure, WrapKubectlError and
   HandleError, applied to the same non-nil, not yet detailed error. *)

\* HandleError, part_002:159-202: the type of the error it prints
HandleError(errStr) ==
    IF "not found" \in errStr THEN ErrorTypePodNotFound
    ELSE IF "forbidden" \in errStr \/ "unauthorized" \in errStr THEN ErrorTypePermission
    ELSE IF "connection refused" \in errStr \/ "no such host" \in errStr
         THEN ErrorTypeClusterAccess
    ELSE IF "timeout" \in errStr THEN ErrorTypeTimeout
    ELSE ErrorTypeKubectl

\* the substrings either classifier looks for
ErrorPatterns == {"not found", "forbidden", "unauthorized", "connection refused",
                  "no such host", "timeout"}

\* the substrings both classifiers look for
SharedPatterns == {"not found", "forbidden", "connection refused"}

ErrorTypes == {ErrorTypePodNotFound, ErrorTypePermission, ErrorTypeKubectl,
               ErrorTypeValidation, ErrorTypeTimeout, ErrorTypeClusterAccess}

\* NewDetailedError(t, ...).WithOriginalError(err)
DetailedError(t, err) == [Type |-> t, OriginalError |-> err]

InitClassifier ==
    /\ DebugIdle
    /\ CleanIdle
    /\ args \in [fn : {"classify"}, err : SUBSET ErrorPatterns]
    /\ ret = [done |-> FALSE, value |-> [WrapKubectlError |-> Nil, HandleError |-> Nil]]

CallWrapKubectlError ==
    /\ args.fn = "classify" /\ ret.value.WrapKubectlError = Nil
    /\ ret' = [done |-> ret.value.HandleError # Nil,
               value |-> [ret.value EXCEPT !.WrapKubectlError =
                             Ptr(DetailedError(WrapKubectlError(args.err), args.err))]]
    /\ UNCHANGED <<debugVars, cleanVars, args>>

CallHandleError ==
    /\ args.fn = "classify" /\ ret.value.HandleError = Nil
    /\ ret' = [done |-> ret.value.WrapKubectlError # Nil,
               value |-> [ret.value EXCEPT !.HandleError =
                             Ptr(DetailedError(HandleError(args.err), args.err))]]
    /\ UNCHANGED <<debugVars, cleanVars, args>>

NextClassifier ==
    \/ CallWrapKubectlError
    \/ CallHandleError

SpecClassifier == InitClassifier /\ [][NextClassifier]_vars

\* the error a classifier returned carries the failure and has one type of
\* the taxonomy, the unclassified one when no pattern matched
Upgraded(e) ==
    /\ e[1].Type \in ErrorTypes
    /\ e[1].OriginalError = args.err
    /\ args.err \cap ErrorPatterns = {} => e[1].Type = ErrorTypeKubectl

(* C29: a failure of the collaborator becomes exactly one error of the
   taxonomy that carries the failure, the unclassified one when no pattern
   matches, and WrapKubectlError and HandleError give the same failure the
   same type. *)
C29_ClassifiersAgree ==
    Returned("classify") =>
        /\ Upgraded(ret.value.WrapKubectlError)
        /\ Upgraded(ret.value.HandleError)
        /\ ret.value.WrapKubectlError[1].Type = ret.value.HandleError[1].Type

\* what holds of the code: each classifier upgrades the failure, and the two
\* agree on failures whose patterns are among those both look for
ClassifiersAgreeOnSharedPatterns ==
    Returned("classify") =>
        /\ Upgraded(ret.value.WrapKubectlError)
        /\ Upgraded(ret.value.HandleError)
        /\ args.err \subseteq SharedPatterns =>
              ret.value.WrapKubectlError[1].Type = ret.value.HandleError[1].Type

----------------------------------------------------------------------------
(* The readiness wait, waitForPod, seen in the log of cluster calls *)

\* the phase queries made so far, and those that did not observe Running
PhaseQueries == {i \in DOMAIN ops : ops[i].op = "poll"}
UnsuccessfulQueries == {i \in DOMAIN ops : ops[i].op = "poll" /\ ~ops[i].ok}

\* the calls to the cluster other than the phase query
OtherClusterCalls == {"create", "delete", "attach", "inject", "locate", "verify"}

\* the calls to the cluster, other than phase queries, that failed
FailedCalls == {i \in DOMAIN ops : ops[i].op \in OtherClusterCalls /\ ~ops[i].ok}

\* call j repeats the earlier call i
Repeats(i, j) ==
    ops[j].op = ops[i].op /\ ops[j].by = ops[i].by /\ ops[j].name = ops[i].name

(* C30: waitForPod makes at most maxAttempts phase queries; the query that
   observes Running is the last one; a query that fails or observes another
   phase counts as an unsuccessful attempt; the timeout is returned after
   exactly maxAttempts unsuccessful queries and no successful one; and no
   call to the cluster other than the phase query is made again after it
   failed. *)
C30_ReadinessWaitBounded ==
    LET queries == PhaseQueries
        unsuccessful == {i \in queries : ~ops[i].ok}
    IN /\ Cardinality(queries) <= maxAttempts
       /\ \A i \in queries \ unsuccessful : \A j \in queries : j <= i
       /\ Cardinality(unsuccessful) = attempts
       /\ result = ErrorTypeTimeout =>
             attempts = maxAttempts /\ queries = unsuccessful
       /\ (pc = "sa_wait" /\ attempts = maxAttempts) => ~ENABLED waitForPodPoll
       /\ \A i \in FailedCalls : \A j \in (i + 1)..Len(ops) : ~Repeats(i, j)

C30_Witness ==
    /\ result = ErrorTypeTimeout
    /\ Cardinality(PhaseQueries) = maxAttempts
    /\ PhaseQueries = UnsuccessfulQueries

----------------------------------------------------------------------------
(* The order of the cluster calls of executeStandalone *)

Creates == {i \in Idx : ops[i].op = "create"}
Attaches == {i \in Idx : ops[i].op = "attach"}

(* C31: in a Standalone invocation the calls to the cluster come in the
   order create, phase queries, attach: there is one create at most and it
   is the first call, every phase query follows the successful create and
   precedes the attach, the attach is issued once at most, after the
   successful create and after a phase query that observed Running for the
   session; and phase queries and attaches occur only when both Interactive
   and TTY are set. *)
C31_StandaloneOrdering ==
    config.Operation = OperationStandalone =>
        LET creates == Creates
            queries == PhaseQueries
            attaches == Attaches
        IN /\ Cardinality(creates) <= 1
           /\ \A i \in creates : \A j \in queries \cup attaches : i < j
           /\ queries # {} =>
                 /\ \E i \in creates :
                       ops[i].ok /\ \A j \in queries : ops[j].name = ops[i].name
                 /\ \A k \in attaches : \A j \in queries : j < k
           /\ Cardinality(attaches) <= 1
           /\ \A k \in attaches :
                 /\ \E i \in creates : i < k /\ ops[i].ok /\ ops[i].name = ops[k].name
                 /\ \E j \in queries : j < k /\ ops[j].ok /\ ops[j].name = ops[k].name
           /\ (queries # {} \/ attaches # {}) => (config.Interactive /\ config.TTY)

C31_Witness ==
    /\ config.Operation = OperationStandalone
    /\ Attaches # {}
    /\ Cardinality(PhaseQueries) = 3
    /\ \E j \in PhaseQueries : ~ops[j].ok

----------------------------------------------------------------------------
\* the Standalone attach ended with a non-zero remote exit code, RemoveAfter set
AttachFailedWithCode ==
    /\ config.Operation = OperationStandalone
    /\ config.RemoveAfter
    /\ attachCode > 0

(* C32: in a Standalone invocation with RemoveAfter, once the attach has
   ended with a non-zero exit code the process has terminated with that code,
   no delete has been issued for the session, and the session is in the
   cluster unless another actor removed it. *)
C32_NonZeroExitLeavesSession ==
    AttachFailedWithCode =>
        /\ proc = "exited" /\ exitCode = attachCode
        /\ ProgramDeletes(debugPodName) = {}
        /\ Exists(debugPodName) \/ debugPodName \in reclaimed

(* C32, as the code has it: the process has terminated with the attach's
   code and the deferred cleanup, though registered, has not run, so the main
   flow has issued no delete; the only delete there can be for the session is
   one the interrupt listener issued before the attach ended, and the session
   is in the cluster unless that delete or another actor removed it. *)
C32_NonZeroExitSkipsDeferredCleanup ==
    AttachFailedWithCode =>
        /\ proc = "exited" /\ exitCode = attachCode
        /\ deferred /\ pc = "sa_attaching"
        /\ MainDeletes = {}
        /\ \A i \in ProgramDeletes(debugPodName) :
              /\ ops[i].by = "listener"
              /\ \E j \in Idx : i < j /\ ops[j].op = "attachEnd"
        /\ \/ Exists(debugPodName)
           \/ debugPodName \in reclaimed
           \/ \E i \in ListenerDeletes : ops[i].name = debugPodName /\ ops[i].ok

C32_Witness ==
    /\ AttachFailedWithCode
    /\ proc = "exited" /\ exitCode = attachCode
    /\ deferred /\ signals = 0
    /\ Idx # {} /\ ops[Len(ops)].op = "attachEnd"
    /\ Exists(debugPodName)

----------------------------------------------------------------------------
\* operation i concerns a session whose create had been answered with success
AfterSuccessfulCreate(i) ==
    \E j \in 1..(i - 1) : ops[j].op = "create" /\ ops[j].ok /\ ops[j].name = ops[i].name

(* C33: in every mode the interrupt listener is installed for a session only
   after the create of that session succeeded, and so every delete the
   listener issues is for a session whose create had succeeded. *)
C33_ListenerOnlyForCreatedSession ==
    /\ \A i \in Idx : ops[i].op = "arm" => AfterSuccessfulCreate(i)
    /\ \A i \in ListenerDeletes : AfterSuccessfulCreate(i)

\* what holds of the code: executeStandalone installs the listener after the
\* create succeeded, and there the listener deletes created sessions only
StandaloneListenerOnlyForCreatedSession ==
    config.Operation = OperationStandalone =>
        /\ \A i \in Idx : ops[i].op = "arm" => AfterSuccessfulCreate(i)
        /\ \A i \in ListenerDeletes : AfterSuccessfulCreate(i)

----------------------------------------------------------------------------
\* the located record of (name, namespace) passed the age filter
PassedAgeFilter(r) ==
    \/ cleanOlderThan = ""
    \/ /\ cleanOlderThan \in ValidThresholds
       /\ r.CreationTimestamp < Now - HoursOf(cleanOlderThan)

(* C34: every delete runClean issues is for the name and namespace of a
   record getDebugPods returned, a pod carrying the discovery label, that
   passed the age filter; no such pair is deleted twice; and the delete is
   addressed to the namespace of the record. *)
C34_DeletesOnlyLocatedAndSelected ==
    LET deletes == CleanDeletes
    IN /\ \A i \in deletes :
             \E j \in DOMAIN debugPods :
                /\ debugPods[j].Name = cleanOps[i].name
                /\ debugPods[j].Namespace = cleanOps[i].namespace
                /\ IsDebugName(debugPods[j].Name)
                /\ NamespaceOf(debugPods[j].Name) = cleanOps[i].namespace
                /\ PassedAgeFilter(debugPods[j])
       /\ \A i, k \in deletes :
             (cleanOps[i].name = cleanOps[k].name
                 /\ cleanOps[i].namespace = cleanOps[k].namespace) => i = k

C34_Witness ==
    /\ cpc = "done" /\ cleanOlderThan = "1h"
    /\ Len(debugPods) = 3 /\ Cardinality(CleanDeletes) = 2
    /\ \E j \in DOMAIN debugPods :
          /\ ~PassedAgeFilter(debugPods[j])
          /\ \A i \in CleanDeletes : cleanOps[i].name # debugPods[j].Name
    /\ \E p \in store : p.name = "web"

----------------------------------------------------------------------------
\* the lookup of the target pod failed
VerifyFailed == \E i \in Idx : ops[i].op = "verify" /\ ~ops[i].ok

(* C35: in PodCopy and EphemeralContainer mode the lookup of the target pod
   is the first thing done; when it fails the invocation ends with the
   PodNotFound error (exit status 1) and has done nothing else: no locator
   query, no prompt, no create or inject, no attach, no delete, no listener
   installed. *)
C35_VerifyFirst ==
    config.Operation \in {OperationCopyPod, OperationAddContainer} =>
        /\ ops # <<>> => ops[1].op = "verify"
        /\ VerifyFailed =>
              /\ Len(ops) = 1
              /\ result = ErrorTypePodNotFound
              /\ MainReturned
              /\ pc = "done" => exitCode = 1
              /\ ~notified
              /\ debugPodName = "" /\ existingPod = ""

C35_Witness ==
    /\ config.Operation = OperationAddContainer
    /\ VerifyFailed
    /\ pc = "done" /\ exitCode = 1
    /\ result = ErrorTypePodNotFound

====
